---- MODULE Spec2Model ----
(***************************************************************************)
(* A model of the bytecode pipeline of golang-interpreter: instruction     *)
(* encoding (package code), the symbol table and the compiler (package     *)
(* compiler) and the stack VM (package vm), driven as one line of the      *)
(* interactive driver (package repl).                                      *)
(*                                                                         *)
(* Conventions.                                                            *)
(*  - Go strings that the program inspects byte by byte (identifier names, *)
(*    token literals, string values) are sequences of byte values.         *)
(*  - Go slices and arrays are 0-based; a slice is a TLA+ sequence and     *)
(*    element i of the slice is seq[i + 1].                                *)
(*  - A Go run-time panic (index out of range, integer divide by zero,     *)
(*    nil dereference) ends the process: it is the outcome "panic", which  *)
(*    is different from Run returning an error.                            *)
(***************************************************************************)
EXTENDS Integers, Sequences, FiniteSets, TLC

VARIABLES pc, program, comp, comp2, vm, status, last, out, codec, hk, lex, prs, symtab

vars == <<pc, program, comp, comp2, vm, status, last, out, codec, hk, lex, prs, symtab>>

(***************************************************************************)
(* Small helpers on sequences.                                             *)
(***************************************************************************)
RECURSIVE SumSeq(_)
SumSeq(s) == IF s = <<>> THEN 0 ELSE Head(s) + SumSeq(Tail(s))

Prefix(s, n) == SubSeq(s, 1, n)

(* s with the elements of t written over it from 0-based position pos *)
Overwrite(s, pos, t) ==
    [i \in 1..Len(s) |-> IF i - 1 >= pos /\ i - 1 < pos + Len(t) THEN t[i - pos] ELSE s[i]]

(***************************************************************************)
(* package code: opcodes, definitions, Make, ReadOperands                  *)
(***************************************************************************)
OpConstant == 0
OpAdd == 1
OpPop == 2
OpSub == 3
OpMul == 4
OpDiv == 5
OpTrue == 6
OpFalse == 7
OpEqual == 8
OpNotEqual == 9
OpGreaterThan == 10
OpMinus == 11
OpBang == 12
OpJumpNotTruthy == 13
OpJump == 14
OpNull == 15
OpGetGlobal == 16
OpSetGlobal == 17
OpArray == 18
OpHash == 19
OpIndex == 20
OpCall == 21
OpReturnValue == 22
OpReturn == 23
OpSetLocal == 24
OpGetLocal == 25
OpGetBuiltin == 26
OpClosure == 27
OpGetFree == 28
OpCurrentClosure == 29

(* the keys of the definitions map *)
Opcodes == OpConstant..OpCurrentClosure

(* definitions[op].OperandWidths *)
OperandWidths(op) ==
    CASE op \in {OpConstant, OpJumpNotTruthy, OpJump, OpGetGlobal, OpSetGlobal,
                 OpArray, OpHash} -> <<2>>
      [] op \in {OpCall, OpSetLocal, OpGetLocal, OpGetBuiltin, OpGetFree} -> <<1>>
      [] op = OpClosure -> <<2, 1>>
      [] OTHER -> <<>>

(* the low byte first *)
PutUint16LittleEndian(o) == <<o % 256, (o % 65536) \div 256>>

(* binary.BigEndian.PutUint16(b, uint16(o)): the two bytes written *)
PutUint16(o) == <<(o % 65536) \div 256, o % 256>>

(* binary.BigEndian.Uint16(ins): decodes the first two bytes of ins *)
ReadUint16(ins) == ins[1] * 256 + ins[2]

(* the bytes Make writes for operand i (0-based) of width w; an operand   *)
(* that is not supplied leaves the zero bytes of make([]byte, n)           *)
OperandBytes(w, operands, i) ==
    IF i + 1 > Len(operands) THEN [k \in 1..w |-> 0]
    ELSE IF w = 2 THEN PutUint16(operands[i + 1])
    ELSE IF w = 1 THEN <<operands[i + 1] % 256>>
    ELSE [k \in 1..w |-> 0]

RECURSIVE EncodeOperands(_, _, _)
EncodeOperands(widths, operands, i) ==
    IF i >= Len(widths) THEN <<>>
    ELSE OperandBytes(widths[i + 1], operands, i) \o EncodeOperands(widths, operands, i + 1)

(* Make(op, operands...): an undefined opcode yields the empty instruction *)
Make(op, operands) ==
    IF op \notin Opcodes THEN <<>>
    ELSE <<op>> \o EncodeOperands(OperandWidths(op), operands, 0)

RECURSIVE DecodeOperands(_, _, _)
DecodeOperands(widths, ins, offset) ==
    IF widths = <<>> THEN <<>>
    ELSE LET w == Head(widths)
             v == IF w = 2 THEN ReadUint16(SubSeq(ins, offset + 1, Len(ins)))
                  ELSE IF w = 1 THEN ins[offset + 1]
                  ELSE 0
         IN <<v>> \o DecodeOperands(Tail(widths), ins, offset + w)

(* ReadOperands(def, ins): the decoded operands and the bytes read *)
ReadOperands(widths, ins) ==
    [operands |-> DecodeOperands(widths, ins, 0), read |-> SumSeq(widths)]

(***************************************************************************)
(* Text.  Byte values of the characters the model needs, and Go's string   *)
(* ordering (bytewise lexicographic).                                      *)
(***************************************************************************)
RECURSIVE StrLess(_, _)
StrLess(a, b) ==
    IF b = <<>> THEN FALSE
    ELSE IF a = <<>> THEN TRUE
    ELSE IF Head(a) # Head(b) THEN Head(a) < Head(b)
    ELSE StrLess(Tail(a), Tail(b))

(* strconv-style decimal text of a non-negative integer, as the lexer read it *)
RECURSIVE Itoa(_)
Itoa(n) == IF n < 10 THEN <<48 + n>> ELSE Itoa(n \div 10) \o <<48 + (n % 10)>>

txtTrue == <<116, 114, 117, 101>>
txtFalse == <<102, 97, 108, 115, 101>>

(* the text of an operator token *)
OperatorText(op) ==
    CASE op = "+" -> <<43>>
      [] op = "-" -> <<45>>
      [] op = "*" -> <<42>>
      [] op = "/" -> <<47>>
      [] op = "<" -> <<60>>
      [] op = ">" -> <<62>>
      [] op = "==" -> <<61, 61>>
      [] op = "!=" -> <<33, 61>>
      [] op = "!" -> <<33>>
      [] OTHER -> <<63>>

(***************************************************************************)
(* package ast: the nodes the parser builds.  A nil *BlockStatement is     *)
(* NilNode.  HashLiteral.Pairs is a Go map keyed by the key node (a        *)
(* pointer), so every parsed pair is kept, duplicates of a key included;   *)
(* Pairs lists them in the order they were parsed.                         *)
(***************************************************************************)
NilNode == [type |-> "nil"]

Program(stmts) == [type |-> "Program", Statements |-> stmts]
LetStatement(name, value) == [type |-> "LetStatement", Name |-> name, Value |-> value]
ReturnStatement(value) == [type |-> "ReturnStatement", ReturnValue |-> value]
ExpressionStatement(e) == [type |-> "ExpressionStatement", Expression |-> e]
BlockStatement(stmts) == [type |-> "BlockStatement", Statements |-> stmts]
Identifier(name) == [type |-> "Identifier", Value |-> name]
IntegerLiteral(n) == [type |-> "IntegerLiteral", IntValue |-> n, Literal |-> Itoa(n)]
StringLiteral(s) == [type |-> "StringLiteral", StrValue |-> s]
Boolean(b) == [type |-> "Boolean", BoolValue |-> b]
PrefixExpression(op, right) == [type |-> "PrefixExpression", Operator |-> op, Right |-> right]
InfixExpression(left, op, right) ==
    [type |-> "InfixExpression", Left |-> left, Operator |-> op, Right |-> right]
IfExpression(cond, cons, alt) ==
    [type |-> "IfExpression", Condition |-> cond, Consequence |-> cons, Alternative |-> alt]
FunctionLiteral(name, params, body) ==
    [type |-> "FunctionLiteral", Name |-> name, Parameters |-> params, Body |-> body]
CallExpression(fn, args) == [type |-> "CallExpression", Function |-> fn, Arguments |-> args]
ArrayLiteral(elems) == [type |-> "ArrayLiteral", Elements |-> elems]
HashLiteral(pairs) == [type |-> "HashLiteral", Pairs |-> pairs]
IndexExpression(left, index) == [type |-> "IndexExpression", Left |-> left, Index |-> index]

(* Node.String() for the node kinds used as hash keys in the programs below *)
RECURSIVE String(_)
String(node) ==
    CASE node.type = "Identifier" -> node.Value
      [] node.type = "IntegerLiteral" -> node.Literal
      [] node.type = "StringLiteral" -> node.StrValue
      [] node.type = "Boolean" -> IF node.BoolValue THEN txtTrue ELSE txtFalse
      [] node.type = "PrefixExpression" ->
            <<40>> \o OperatorText(node.Operator) \o String(node.Right) \o <<41>>
      [] node.type = "InfixExpression" ->
            <<40>> \o String(node.Left) \o <<32>> \o OperatorText(node.Operator)
                   \o <<32>> \o String(node.Right) \o <<41>>
      [] node.type = "IndexExpression" ->
            <<40>> \o String(node.Left) \o <<91>> \o String(node.Index) \o <<93, 41>>
      [] OTHER -> <<>>

(***************************************************************************)
(* package compiler: the symbol table.  The compiler's tables form a chain *)
(* through Outer; the chain is the sequence `tables`, tables[1] the table  *)
(* without Outer and tables[Len(tables)] the current one.                  *)
(***************************************************************************)
LocalScope == "LOCAL"
GlobalScope == "GLOBAL"
BuiltinScope == "BUILTIN"
FreeScope == "FREE"
FunctionScope == "FUNCTIOn"

Symbol(name, scope, index) == [Name |-> name, Scope |-> scope, Index |-> index]

NewSymbolTable == [store |-> <<>>, numDefinitions |-> 0, FreeSymbols |-> <<>>]

(* st.store[name] = symbol *)
StorePut(store, name, symbol) ==
    [n \in (DOMAIN store) \cup {name} |-> IF n = name THEN symbol ELSE store[n]]

(* NewEnclosedSymbolTable(outer) *)
NewEnclosedSymbolTable(tables) == Append(tables, NewSymbolTable)

(* a Define that gives a name defined before the index it had *)
DefineReusing(tables, lvl, name) ==
    LET st == tables[lvl]
        again == name \in DOMAIN st.store
        symbol == Symbol(name, IF lvl = 1 THEN GlobalScope ELSE LocalScope,
                         IF again THEN st.store[name].Index ELSE st.numDefinitions)
    IN [tables |-> [tables EXCEPT ![lvl] =
                        [@ EXCEPT !.store = StorePut(@, name, symbol),
                                  !.numDefinitions = IF again THEN @ ELSE @ + 1]],
        symbol |-> symbol]

(* st.Define(name) on table `lvl` *)
Define(tables, lvl, name) ==
    LET st == tables[lvl]
        symbol == Symbol(name, IF lvl = 1 THEN GlobalScope ELSE LocalScope, st.numDefinitions)
    IN [tables |-> [tables EXCEPT ![lvl] =
                        [@ EXCEPT !.store = StorePut(@, name, symbol),
                                  !.numDefinitions = @ + 1]],
        symbol |-> symbol]

DefineBuiltin(tables, lvl, index, name) ==
    LET symbol == Symbol(name, BuiltinScope, index)
    IN [tables |-> [tables EXCEPT ![lvl].store = StorePut(@, name, symbol)],
        symbol |-> symbol]

DefineFunctionName(tables, lvl, name) ==
    LET symbol == Symbol(name, FunctionScope, 0)
    IN [tables |-> [tables EXCEPT ![lvl].store = StorePut(@, name, symbol)],
        symbol |-> symbol]

(* a defineFree that numbers the free symbols from 1 *)
defineFreeFromOne(tables, lvl, original) ==
    LET free == Append(tables[lvl].FreeSymbols, original)
        symbol == Symbol(original.Name, FreeScope, Len(free))
    IN [tables |-> [tables EXCEPT ![lvl] =
                        [@ EXCEPT !.FreeSymbols = free,
                                  !.store = StorePut(@, original.Name, symbol)]],
        symbol |-> symbol]

(* s.defineFree(original) on table `lvl` *)
defineFree(tables, lvl, original) ==
    LET free == Append(tables[lvl].FreeSymbols, original)
        symbol == Symbol(original.Name, FreeScope, Len(free) - 1)
    IN [tables |-> [tables EXCEPT ![lvl] =
                        [@ EXCEPT !.FreeSymbols = free,
                                  !.store = StorePut(@, original.Name, symbol)]],
        symbol |-> symbol]

NoSymbol == Symbol(<<>>, "", 0)

(* st.Resolve(name) on table `lvl` *)
RECURSIVE Resolve(_, _, _)
(* a Resolve that asks the outer table again for a name it holds as free *)
ResolveFreeAnew(tables, lvl, name) ==
    IF name \in DOMAIN tables[lvl].store /\ tables[lvl].store[name].Scope # FreeScope
    THEN [tables |-> tables, symbol |-> tables[lvl].store[name], ok |-> TRUE]
    ELSE IF lvl = 1
    THEN [tables |-> tables, symbol |-> NoSymbol, ok |-> FALSE]
    ELSE LET r == Resolve(tables, lvl - 1, name)
         IN IF ~r.ok THEN r
            ELSE IF r.symbol.Scope = GlobalScope \/ r.symbol.Scope = BuiltinScope THEN r
            ELSE LET f == defineFree(r.tables, lvl, r.symbol)
                 IN [tables |-> f.tables, symbol |-> f.symbol, ok |-> TRUE]

(* a Resolve that marks every symbol of an outer table as free *)
ResolveFreeingAll(tables, lvl, name) ==
    IF name \in DOMAIN tables[lvl].store
    THEN [tables |-> tables, symbol |-> tables[lvl].store[name], ok |-> TRUE]
    ELSE IF lvl = 1
    THEN [tables |-> tables, symbol |-> NoSymbol, ok |-> FALSE]
    ELSE LET r == Resolve(tables, lvl - 1, name)
         IN IF ~r.ok THEN r
            ELSE LET f == defineFree(r.tables, lvl, r.symbol)
                 IN [tables |-> f.tables, symbol |-> f.symbol, ok |-> TRUE]

Resolve(tables, lvl, name) ==
    IF name \in DOMAIN tables[lvl].store
    THEN [tables |-> tables, symbol |-> tables[lvl].store[name], ok |-> TRUE]
    ELSE IF lvl = 1
    THEN [tables |-> tables, symbol |-> NoSymbol, ok |-> FALSE]
    ELSE LET r == Resolve(tables, lvl - 1, name)
         IN IF ~r.ok THEN r
            ELSE IF r.symbol.Scope = GlobalScope \/ r.symbol.Scope = BuiltinScope THEN r
            ELSE LET f == defineFree(r.tables, lvl, r.symbol)
                 IN [tables |-> f.tables, symbol |-> f.symbol, ok |-> TRUE]


(***************************************************************************)
(* package object: the values the compiler puts in the constants pool      *)
(***************************************************************************)
INTEGER_OBJ == "INTEGER"
BOOLEAN_OBJ == "BOOLEAN"
NULL_OBJ == "NULL"
STRING_OBJ == "STRING"
BUILTIN_OBJ == "BUILTIN"
ARRAY_OBJ == "ARRAY"
HASH_OBJ == "HASH"
COMPILED_FUNCTION_OBJ == "COMPILED_FUNCTION_OBJ"
CLOSURE_OBJ == "CLOSURE"

IntegerConst(n) == [type |-> INTEGER_OBJ, Value |-> n]
StringConst(s) == [type |-> STRING_OBJ, Str |-> s]
CompiledFunction(ins, numLocals, numParameters) ==
    [type |-> COMPILED_FUNCTION_OBJ, Instructions |-> ins,
     NumLocals |-> numLocals, NumParameters |-> numParameters]

(* object.Builtins: the registry, in order *)
BuiltinNames ==
    << <<108, 101, 110>>,            \* len
       <<102, 105, 114, 115, 116>>,  \* first
       <<108, 97, 115, 116>>,        \* last
       <<114, 101, 115, 116>>,       \* rest
       <<112, 117, 115, 104>>,       \* push
       <<112, 117, 116, 115>> >>     \* puts

(***************************************************************************)
(* package compiler: the compiler.  A Compiler value is the record         *)
(*   constants, tables (symbolTable and its Outer chain), scopes,          *)
(*   scopeIndex, err (the error Compile returned, "" for nil; errName is   *)
(*   the name an "undefined variable: <name>" error reports)               *)
(* and, for the order in which `range node.Pairs` yields the keys of each  *)
(* hash literal (Go leaves map iteration order unspecified), rangeOrders:  *)
(* a function from the literal's Pairs to a permutation of 1..Len(Pairs).  *)
(***************************************************************************)
EmittedInstruction(op, pos) == [Opcode |-> op, Position |-> pos]

NewScope == [instructions |-> <<>>,
             lastInstruction |-> EmittedInstruction(0, 0),
             previousInstruction |-> EmittedInstruction(0, 0)]

RECURSIVE DefineBuiltins(_, _)
DefineBuiltins(tables, i) ==
    IF i >= Len(BuiltinNames) THEN tables
    ELSE DefineBuiltins(DefineBuiltin(tables, 1, i, BuiltinNames[i + 1]).tables, i + 1)

(* the symbol table New() and repl.Start build *)
BuiltinSymbolTable == DefineBuiltins(<<NewSymbolTable>>, 0)

(* NewWithState(s, constants); New() is NewWithState(BuiltinSymbolTable, <<>>) *)
NewWithState(table, constants, orders) ==
    [constants |-> constants, tables |-> <<table>>, scopes |-> <<NewScope>>,
     scopeIndex |-> 0, err |-> "", errName |-> <<>>,
     rangeOrders |-> orders, closures |-> <<>>]

currentInstructions(c) == c.scopes[c.scopeIndex + 1].instructions

curTable(c) == Len(c.tables)

addConstant(c, obj) ==
    [c |-> [c EXCEPT !.constants = Append(@, obj)], index |-> Len(c.constants)]

addInstruction(c, ins) ==
    [c |-> [c EXCEPT !.scopes[c.scopeIndex + 1].instructions = @ \o ins],
     pos |-> Len(currentInstructions(c))]

setLastInstruction(c, op, pos) ==
    [c EXCEPT !.scopes[c.scopeIndex + 1] =
        [@ EXCEPT !.previousInstruction = c.scopes[c.scopeIndex + 1].lastInstruction,
                  !.lastInstruction = EmittedInstruction(op, pos)]]

emit(c, op, operands) ==
    LET a == addInstruction(c, Make(op, operands))
    IN [c |-> setLastInstruction(a.c, op, a.pos), pos |-> a.pos]

lastInstructionIs(c, op) == c.scopes[c.scopeIndex + 1].lastInstruction.Opcode = op

(* a removeLastPop that cuts the byte before the Pop too *)
removeLastPopAndByte(c) ==
    LET sc == c.scopes[c.scopeIndex + 1]
    IN [c EXCEPT !.scopes[c.scopeIndex + 1] =
          [@ EXCEPT !.instructions = Prefix(sc.instructions, sc.lastInstruction.Position - 1),
                    !.lastInstruction = sc.previousInstruction]]

removeLastPop(c) ==
    LET sc == c.scopes[c.scopeIndex + 1]
    IN [c EXCEPT !.scopes[c.scopeIndex + 1] =
          [@ EXCEPT !.instructions = Prefix(sc.instructions, sc.lastInstruction.Position),
                    !.lastInstruction = sc.previousInstruction]]

replaceInstruction(c, pos, newInstruction) ==
    [c EXCEPT !.scopes[c.scopeIndex + 1].instructions = Overwrite(@, pos, newInstruction)]

(* a replaceLastPopWithReturn that records the ReturnValue and leaves the Pop *)
replaceLastPopWithReturnUnwritten(c) ==
    [c EXCEPT !.scopes[c.scopeIndex + 1].lastInstruction.Opcode = OpReturnValue]

replaceLastPopWithReturn(c) ==
    LET lastPos == c.scopes[c.scopeIndex + 1].lastInstruction.Position
        r == replaceInstruction(c, lastPos, Make(OpReturnValue, <<>>))
    IN [r EXCEPT !.scopes[c.scopeIndex + 1].lastInstruction.Opcode = OpReturnValue]

(* a changeOperand that writes the offset after the one it was given *)
changeOperandOneOff(c, opPos, operand) ==
    LET op == currentInstructions(c)[opPos + 1]
    IN replaceInstruction(c, opPos, Make(op, <<operand + 1>>))

changeOperand(c, opPos, operand) ==
    LET op == currentInstructions(c)[opPos + 1]
    IN replaceInstruction(c, opPos, Make(op, <<operand>>))

enterScope(c) ==
    [c EXCEPT !.scopes = Append(@, NewScope),
              !.scopeIndex = @ + 1,
              !.tables = NewEnclosedSymbolTable(@)]

(* leaveScope: the compiler after it; the instructions it returns are      *)
(* currentInstructions of the compiler before it                           *)
leaveScope(c) ==
    [c EXCEPT !.scopes = Prefix(@, Len(@) - 1),
              !.scopeIndex = @ - 1,
              !.tables = Prefix(@, Len(@) - 1)]

loadSymbol(c, s) ==
    CASE s.Scope = GlobalScope -> emit(c, OpGetGlobal, <<s.Index>>).c
      [] s.Scope = LocalScope -> emit(c, OpGetLocal, <<s.Index>>).c
      [] s.Scope = BuiltinScope -> emit(c, OpGetBuiltin, <<s.Index>>).c
      [] s.Scope = FreeScope -> emit(c, OpGetFree, <<s.Index>>).c
      [] s.Scope = FunctionScope -> emit(c, OpCurrentClosure, <<>>).c
      [] OTHER -> c

RECURSIVE loadSymbols(_, _, _)
(* a loadSymbols that loads the symbols last to first *)
loadSymbolsLastFirst(c, syms, i) ==
    IF i > Len(syms) THEN c
    ELSE loadSymbols(loadSymbol(c, syms[Len(syms) + 1 - i]), syms, i + 1)

loadSymbols(c, syms, i) ==
    IF i > Len(syms) THEN c ELSE loadSymbols(loadSymbol(c, syms[i]), syms, i + 1)

Bytecode(c) == [Instructions |-> currentInstructions(c), Constants |-> c.constants]


(* sort.Slice(keys, less) with less(i, j) = keys[i].String() < keys[j].String(). *)
(* For the at most 12 keys of the literals modelled here sort.Slice is the       *)
(* insertion sort: each key moves left while it is less than its neighbour.      *)
RECURSIVE InsertKey(_, _, _)
InsertKey(sorted, k, pairs) ==
    IF sorted = <<>> \/ ~StrLess(String(pairs[k].key), String(pairs[sorted[Len(sorted)]].key))
    THEN Append(sorted, k)
    ELSE Append(InsertKey(Prefix(sorted, Len(sorted) - 1), k, pairs), sorted[Len(sorted)])

RECURSIVE SortKeys(_, _, _)
SortKeys(keys, i, pairs) ==
    IF i = 0 THEN <<>>
    ELSE InsertKey(SortKeys(keys, i - 1, pairs), keys[i], pairs)

(* the keys of a hash literal as `for k := range node.Pairs` collects them: *)
(* `for k := range node.Pairs`: the pairs (by position) in the order the   *)
(* iteration of this literal's map yields them                             *)
RangeKeys(c, pairs) ==
    IF pairs \in DOMAIN c.rangeOrders THEN c.rangeOrders[pairs]
    ELSE [i \in 1..Len(pairs) |-> i]

RECURSIVE Compile(_, _)
RECURSIVE CompileAll(_, _, _)
RECURSIVE CompilePairs(_, _, _, _)
RECURSIVE DefineParams(_, _, _)

(* for _, s := range nodes { err := c.Compile(s); if err != nil { return err } } *)
CompileAll(c, nodes, i) ==
    IF i > Len(nodes) THEN c
    ELSE LET c1 == Compile(c, nodes[i])
         IN IF c1.err # "" THEN c1 ELSE CompileAll(c1, nodes, i + 1)

CompilePairs(c, keys, pairs, i) ==
    IF i > Len(keys) THEN c
    ELSE LET c1 == Compile(c, pairs[keys[i]].key)
         IN IF c1.err # "" THEN c1
            ELSE LET c2 == Compile(c1, pairs[keys[i]].value)
                 IN IF c2.err # "" THEN c2 ELSE CompilePairs(c2, keys, pairs, i + 1)

DefineParams(c, params, i) ==
    IF i > Len(params) THEN c
    ELSE DefineParams([c EXCEPT !.tables = Define(c.tables, curTable(c), params[i]).tables],
                      params, i + 1)

CompileInfix(c, node) ==
    IF node.Operator = "<"
    THEN LET c1 == Compile(c, node.Right)
         IN IF c1.err # "" THEN c1
            ELSE LET c2 == Compile(c1, node.Left)
                 IN IF c2.err # "" THEN c2 ELSE emit(c2, OpGreaterThan, <<>>).c
    ELSE LET c1 == Compile(c, node.Left)
         IN IF c1.err # "" THEN c1
            ELSE LET c2 == Compile(c1, node.Right)
                 IN IF c2.err # "" THEN c2
                    ELSE CASE node.Operator = "+" -> emit(c2, OpAdd, <<>>).c
                           [] node.Operator = "-" -> emit(c2, OpSub, <<>>).c
                           [] node.Operator = "*" -> emit(c2, OpMul, <<>>).c
                           [] node.Operator = "/" -> emit(c2, OpDiv, <<>>).c
                           [] node.Operator = ">" -> emit(c2, OpGreaterThan, <<>>).c
                           [] node.Operator = "==" -> emit(c2, OpEqual, <<>>).c
                           [] node.Operator = "!=" -> emit(c2, OpNotEqual, <<>>).c
                           [] OTHER -> [c2 EXCEPT !.err = "unknown operator"]

CompilePrefix(c, node) ==
    LET c1 == Compile(c, node.Right)
    IN IF c1.err # "" THEN c1
       ELSE CASE node.Operator = "-" -> emit(c1, OpMinus, <<>>).c
              [] node.Operator = "!" -> emit(c1, OpBang, <<>>).c
              [] OTHER -> [c1 EXCEPT !.err = "unknown operator"]

CompileIf(c, node) ==
    LET c1 == Compile(c, node.Condition)
    IN IF c1.err # "" THEN c1
       ELSE
       LET jnt == emit(c1, OpJumpNotTruthy, <<9999>>)
           jumpNotTruhyPos == jnt.pos
           c2 == Compile(jnt.c, node.Consequence)
       IN IF c2.err # "" THEN c2
          ELSE
          LET c3 == IF lastInstructionIs(c2, OpPop) THEN removeLastPop(c2) ELSE c2
              jmp == emit(c3, OpJump, <<9999>>)
              jumpPos == jmp.pos
              afterConsequencePos == Len(currentInstructions(jmp.c))
              c4 == changeOperand(jmp.c, jumpNotTruhyPos, afterConsequencePos)
              c5 == IF node.Alternative.type = "nil"
                    THEN emit(c4, OpNull, <<>>).c
                    ELSE LET a == Compile(c4, node.Alternative)
                         IN IF a.err # "" THEN a
                            ELSE IF lastInstructionIs(a, OpPop) THEN removeLastPop(a) ELSE a
          IN IF c5.err # "" THEN c5
             ELSE changeOperand(c5, jumpPos, Len(currentInstructions(c5)))

CompileLet(c, node) ==
    LET d == Define(c.tables, curTable(c), node.Name)
        symbol == d.symbol
        c1 == Compile([c EXCEPT !.tables = d.tables], node.Value)
    IN IF c1.err # "" THEN c1
       ELSE IF symbol.Scope = GlobalScope
       THEN emit(c1, OpSetGlobal, <<symbol.Index>>).c
       ELSE emit(c1, OpSetLocal, <<symbol.Index>>).c

(* an Identifier case that loads null for a name it cannot resolve *)
CompileIdentifierOrNull(c, node) ==
    LET r == Resolve(c.tables, curTable(c), node.Value)
    IN IF ~r.ok THEN emit([c EXCEPT !.tables = r.tables], OpNull, <<>>).c
       ELSE loadSymbol([c EXCEPT !.tables = r.tables], r.symbol)

CompileIdentifier(c, node) ==
    LET r == Resolve(c.tables, curTable(c), node.Value)
    IN IF ~r.ok
       THEN [c EXCEPT !.tables = r.tables, !.err = "undefined variable", !.errName = node.Value]
       ELSE loadSymbol([c EXCEPT !.tables = r.tables], r.symbol)

CompileHash(c, node) ==
    LET keys == SortKeys(RangeKeys(c, node.Pairs), Len(node.Pairs), node.Pairs)
        c1 == CompilePairs(c, keys, node.Pairs, 1)
    IN IF c1.err # "" THEN c1
       ELSE emit(c1, OpHash, <<Len(node.Pairs) * 2>>).c

(* c.emit(code.OpClosure, fnIndex, len(freeSymbols)); closures keeps, for    *)
(* each function literal compiled on this line, the index of its constant,  *)
(* its freeSymbols and the position of its Closure instruction              *)
ClosureEmitted(e, fnIndex, freeSymbols) ==
    [e.c EXCEPT !.closures = Append(@, [fnIndex |-> fnIndex, free |-> freeSymbols,
                                        pos |-> e.pos])]

CompileFunction(c, node) ==
    LET c1 == enterScope(c)
        c2 == IF node.Name # <<>>
              THEN [c1 EXCEPT !.tables = DefineFunctionName(c1.tables, curTable(c1), node.Name).tables]
              ELSE c1
        c3 == DefineParams(c2, node.Parameters, 1)
        c4 == Compile(c3, node.Body)
    IN IF c4.err # "" THEN c4
       ELSE
       LET c5 == IF lastInstructionIs(c4, OpPop) THEN replaceLastPopWithReturn(c4) ELSE c4
           c6 == IF ~lastInstructionIs(c5, OpReturnValue) THEN emit(c5, OpReturn, <<>>).c ELSE c5
           freeSymbols == c6.tables[curTable(c6)].FreeSymbols
           numLocals == c6.tables[curTable(c6)].numDefinitions
           instructions == currentInstructions(c6)
           c7 == loadSymbols(leaveScope(c6), freeSymbols, 1)
           compiledFn == CompiledFunction(instructions, numLocals, Len(node.Parameters))
           k == addConstant(c7, compiledFn)
       IN ClosureEmitted(emit(k.c, OpClosure, <<k.index, Len(freeSymbols)>>),
                         k.index, freeSymbols)

(* Compiler.Compile(node): the compiler after the call, err set when it failed *)
Compile(c, node) ==
    CASE node.type = "Program" -> CompileAll(c, node.Statements, 1)
      [] node.type = "ExpressionStatement" ->
            LET c1 == Compile(c, node.Expression)
            IN IF c1.err # "" THEN c1 ELSE emit(c1, OpPop, <<>>).c
      [] node.type = "InfixExpression" -> CompileInfix(c, node)
      [] node.type = "PrefixExpression" -> CompilePrefix(c, node)
      [] node.type = "IfExpression" -> CompileIf(c, node)
      [] node.type = "BlockStatement" -> CompileAll(c, node.Statements, 1)
      [] node.type = "LetStatement" -> CompileLet(c, node)
      [] node.type = "Identifier" -> CompileIdentifier(c, node)
      [] node.type = "ArrayLiteral" ->
            LET c1 == CompileAll(c, node.Elements, 1)
            IN IF c1.err # "" THEN c1 ELSE emit(c1, OpArray, <<Len(node.Elements)>>).c
      [] node.type = "HashLiteral" -> CompileHash(c, node)
      [] node.type = "IndexExpression" ->
            LET c1 == Compile(c, node.Left)
            IN IF c1.err # "" THEN c1
               ELSE LET c2 == Compile(c1, node.Index)
                    IN IF c2.err # "" THEN c2 ELSE emit(c2, OpIndex, <<>>).c
      [] node.type = "FunctionLiteral" -> CompileFunction(c, node)
      [] node.type = "ReturnStatement" ->
            LET c1 == Compile(c, node.ReturnValue)
            IN IF c1.err # "" THEN c1 ELSE emit(c1, OpReturnValue, <<>>).c
      [] node.type = "CallExpression" ->
            LET c1 == Compile(c, node.Function)
            IN IF c1.err # "" THEN c1
               ELSE LET c2 == CompileAll(c1, node.Arguments, 1)
                    IN IF c2.err # "" THEN c2 ELSE emit(c2, OpCall, <<Len(node.Arguments)>>).c
      [] node.type = "IntegerLiteral" ->
            LET k == addConstant(c, IntegerConst(node.IntValue))
            IN emit(k.c, OpConstant, <<k.index>>).c
      [] node.type = "StringLiteral" ->
            LET k == addConstant(c, StringConst(node.StrValue))
            IN emit(k.c, OpConstant, <<k.index>>).c
      [] node.type = "Boolean" ->
            IF node.BoolValue THEN emit(c, OpTrue, <<>>).c ELSE emit(c, OpFalse, <<>>).c
      [] OTHER -> c


(***************************************************************************)
(* package lexer.  The input is the sequence of its bytes; a Lexer is the  *)
(* record input, position, readPosition, ch.  A token is Type and Literal. *)
(* An operation that returns a value next to changing the lexer yields the *)
(* record l (the lexer after it) with tok or str.                          *)
(***************************************************************************)
Token(type, literal) == [Type |-> type, Literal |-> literal]

(* token.LookupIdent: the keyword's type, IDENT for any other word *)
LookupIdent(ident) ==
    CASE ident = <<102, 110>> -> "FUNCTION"
      [] ident = <<108, 101, 116>> -> "LET"
      [] ident = <<116, 114, 117, 101>> -> "TRUE"
      [] ident = <<102, 97, 108, 115, 101>> -> "FALSE"
      [] ident = <<105, 102>> -> "IF"
      [] ident = <<101, 108, 115, 101>> -> "ELSE"
      [] ident = <<114, 101, 116, 117, 114, 110>> -> "RETURN"
      [] OTHER -> "IDENT"

readChar(l) ==
    [l EXCEPT !.ch = IF l.readPosition >= Len(l.input) THEN 0
                     ELSE l.input[l.readPosition + 1],
              !.position = l.readPosition,
              !.readPosition = l.readPosition + 1]

isLetter(ch) == (97 <= ch /\ ch <= 122) \/ (65 <= ch /\ ch <= 90) \/ ch = 95
isDigit(ch) == 48 <= ch /\ ch <= 57

(* l.input[from:to] *)
InputSlice(l, from, to) == SubSeq(l.input, from + 1, to)

(* l.input[position:l.position] once the lexer has read on to l1 *)
ReadFrom(position, l1) == [l |-> l1, str |-> InputSlice(l1, position, l1.position)]

RECURSIVE SkipDigits(_)
SkipDigits(l) == IF isDigit(l.ch) THEN SkipDigits(readChar(l)) ELSE l

readNumber(l) == ReadFrom(l.position, SkipDigits(l))

RECURSIVE SkipLetters(_)
SkipLetters(l) == IF isLetter(l.ch) THEN SkipLetters(readChar(l)) ELSE l

readIdentifier(l) == ReadFrom(l.position, SkipLetters(l))

peekChar(l) == IF l.readPosition >= Len(l.input) THEN 0 ELSE l.input[l.readPosition + 1]

RECURSIVE skipWhitespace(_)
skipWhitespace(l) ==
    IF l.ch = 32 \/ l.ch = 9 \/ l.ch = 10 \/ l.ch = 13 THEN skipWhitespace(readChar(l)) ELSE l

RECURSIVE ReadToQuote(_)
ReadToQuote(l) ==
    LET l1 == readChar(l)
    IN IF l1.ch = 34 \/ l1.ch = 0 THEN l1 ELSE ReadToQuote(l1)

readString(l) == ReadFrom(l.position + 1, ReadToQuote(l))

newToken(tokenType, ch) == Token(tokenType, <<ch>>)

(* the token types of the one-character cases of NextToken's switch *)
SingleCharTokens ==
    [c \in {43, 45, 42, 47, 60, 62, 44, 59, 40, 41, 123, 125} |->
        CASE c = 43 -> "PLUS" [] c = 45 -> "MINUS" [] c = 42 -> "ASTERISK"
          [] c = 47 -> "SLASH" [] c = 60 -> "LT" [] c = 62 -> "GT"
          [] c = 44 -> "COMMA" [] c = 59 -> "SEMICOLON" [] c = 40 -> "LPAREN"
          [] c = 41 -> "RPAREN" [] c = 123 -> "LBRACE" [] c = 125 -> "RBRACE"]

(* the tokens of the cases that read more than two characters *)
StringToken(r) == [l |-> readChar(r.l), tok |-> Token("STRING", r.str)]
IdentToken(r) == [l |-> r.l, tok |-> Token(LookupIdent(r.str), r.str)]
IntToken(r) == [l |-> r.l, tok |-> Token("INT", r.str)]

(* NextToken's switch on l.ch, after skipWhitespace *)
ScanToken(l) ==
    CASE l.ch = 61 ->
           IF peekChar(l) = 61
           THEN [l |-> readChar(readChar(l)), tok |-> Token("EQ", <<l.ch, peekChar(l)>>)]
           ELSE [l |-> readChar(l), tok |-> newToken("ASSIGN", l.ch)]
      [] l.ch = 33 ->
           IF peekChar(l) = 61
           THEN [l |-> readChar(readChar(l)), tok |-> Token("NOT_EQ", <<l.ch, peekChar(l)>>)]
           ELSE [l |-> readChar(l), tok |-> newToken("BANG", l.ch)]
      [] l.ch \in DOMAIN SingleCharTokens ->
           [l |-> readChar(l), tok |-> newToken(SingleCharTokens[l.ch], l.ch)]
      [] l.ch = 34 -> StringToken(readString(l))
      [] l.ch = 0 -> [l |-> readChar(l), tok |-> Token("EOF", <<>>)]
      [] OTHER ->
           IF isLetter(l.ch) THEN IdentToken(readIdentifier(l))
           ELSE IF isDigit(l.ch) THEN IntToken(readNumber(l))
           ELSE [l |-> readChar(l), tok |-> newToken("ILLEGAL", l.ch)]

NextToken(l0) == ScanToken(skipWhitespace(l0))

(* lexer.New(input) *)
NewLexer(input) == readChar([input |-> input, position |-> 0, readPosition |-> 0, ch |-> 0])

(* the lexer of a run and the tokens NextToken has returned so far *)
NoLexer == [l |-> NewLexer(<<>>), toks |-> <<>>]


(***************************************************************************)
(* package parser.  A Parser is the record l (its lexer), curToken,        *)
(* peekToken, errors.  A parse function yields the record p (the parser    *)
(* after it) and node: the node it returns, NilNode for a nil interface,   *)
(* NilPointer(t) for a nil pointer of type t inside a non-nil interface.   *)
(* A diagnostic is the tuple of the parts fmt.Sprintf joins.               *)
(***************************************************************************)
LOWEST == 1
EQUALS == 2
LESSGREATER == 3
SUM == 4
PRODUCT == 5
PREFIX == 6
CALL == 7
INDEX == 8

precedences ==
    [t \in {"EQ", "NOT_EQ", "LT", "GT", "PLUS", "MINUS", "SLASH", "ASTERISK", "LPAREN", "LBRACKET"} |->
        CASE t \in {"EQ", "NOT_EQ"} -> EQUALS
          [] t \in {"LT", "GT"} -> LESSGREATER
          [] t \in {"PLUS", "MINUS"} -> SUM
          [] t \in {"SLASH", "ASTERISK"} -> PRODUCT
          [] t = "LPAREN" -> CALL
          [] t = "LBRACKET" -> INDEX]

(* the token types New registers a prefix, an infix parse function for *)
PrefixTokens ==
    {"IDENT", "INT", "BANG", "MINUS", "TRUE", "FALSE", "LPAREN", "IF", "FUNCTION", "STRING",
     "LBRACKET", "LBRACE"}
InfixTokens ==
    {"PLUS", "MINUS", "SLASH", "ASTERISK", "EQ", "NOT_EQ", "LT", "GT", "LPAREN", "LBRACKET"}

NilPointer(t) == [type |-> "nil", of |-> t]
Parsed(p, node) == [p |-> p, node |-> node]

TokenRead(p, r) == [p EXCEPT !.curToken = p.peekToken, !.peekToken = r.tok, !.l = r.l]

nextToken(p) == TokenRead(p, NextToken(p.l))

(* parser.New(l) *)
NewParser(l) ==
    nextToken(nextToken([l |-> l, curToken |-> Token("", <<>>), peekToken |-> Token("", <<>>),
                         errors |-> <<>>]))

curTokenIs(p, t) == p.curToken.Type = t
peekTokenIs(p, t) == p.peekToken.Type = t

peekError(p, t) ==
    [p EXCEPT !.errors = Append(@, <<"expected next token to be", t, "got", p.peekToken.Type>>)]

noPrefixParseFnError(p, t) ==
    [p EXCEPT !.errors = Append(@, <<"no prefix parse function for", t>>)]

(* an expectPeek that steps over the token it did not expect *)
expectPeekSkipping(p, t) ==
    IF peekTokenIs(p, t) THEN [p |-> nextToken(p), ok |-> TRUE]
    ELSE [p |-> nextToken(peekError(p, t)), ok |-> FALSE]

(* expectPeek: the parser after it and whether the expectation was met *)
expectPeek(p, t) ==
    IF peekTokenIs(p, t) THEN [p |-> nextToken(p), ok |-> TRUE]
    ELSE [p |-> peekError(p, t), ok |-> FALSE]

peekPrecedence(p) ==
    IF p.peekToken.Type \in DOMAIN precedences THEN precedences[p.peekToken.Type] ELSE LOWEST
curPrecedence(p) ==
    IF p.curToken.Type \in DOMAIN precedences THEN precedences[p.curToken.Type] ELSE LOWEST

(* if p.peekTokenIs(token.SEMICOLON) { p.nextToken() } *)
SkipSemicolon(p) == IF peekTokenIs(p, "SEMICOLON") THEN nextToken(p) ELSE p

(* strconv.ParseInt(literal, 0, 64) on a run of digits: a leading 0 makes  *)
(* the rest octal.  The literals parsed here are too short to overflow.    *)
RECURSIVE DigitsValue(_, _, _)
DigitsValue(digits, base, acc) ==
    IF digits = <<>> THEN [ok |-> TRUE, value |-> acc]
    ELSE IF Head(digits) - 48 >= base THEN [ok |-> FALSE, value |-> 0]
    ELSE DigitsValue(Tail(digits), base, acc * base + (Head(digits) - 48))

ParseInt(literal) ==
    IF Len(literal) > 1 /\ literal[1] = 48 THEN DigitsValue(Tail(literal), 8, 0)
    ELSE DigitsValue(literal, 10, 0)

(* the Operator of a prefix or infix node: the literal of its token *)
OperatorOf(literal) ==
    IF \E op \in {"+", "-", "*", "/", "<", ">", "==", "!=", "!"} : OperatorText(op) = literal
    THEN CHOOSE op \in {"+", "-", "*", "/", "<", ">", "==", "!=", "!"} : OperatorText(op) = literal
    ELSE "?"

parseIdentifier(p) == Parsed(p, Identifier(p.curToken.Literal))

parseIntegerLiteral(p) ==
    LET r == ParseInt(p.curToken.Literal)
    IN IF ~r.ok
       THEN Parsed([p EXCEPT !.errors = Append(@, <<"could not parse", p.curToken.Literal,
                                                    "a integer">>)], NilNode)
       ELSE Parsed(p, [type |-> "IntegerLiteral", IntValue |-> r.value,
                       Literal |-> p.curToken.Literal])

parseBoolean(p) == Parsed(p, Boolean(curTokenIs(p, "TRUE")))
parseStringLiteral(p) == Parsed(p, StringLiteral(p.curToken.Literal))

RECURSIVE parseStatement(_)
RECURSIVE parseExpression(_, _)
RECURSIVE InfixLoop(_, _, _)
RECURSIVE prefixParseFns(_)
RECURSIVE infixParseFns(_, _)
RECURSIVE parseBlockStatement(_)
RECURSIVE BlockLoop(_, _)
RECURSIVE parseExpressionList(_, _)
RECURSIVE ExpressionListLoop(_, _)
RECURSIVE HashLoop(_, _)

(* A parse function that goes on after a call is split at the call: the   *)
(* operator named after the function and the step takes the result of the *)
(* call and does the rest of the function's body.  The last step of a     *)
(* function comes first.                                                  *)

(* parseLetStatement: after the value, after "=", after the name *)
LetValueParsed(v, name) ==
    Parsed(SkipSemicolon(v.p),
           LetStatement(name, IF v.node.type = "FunctionLiteral"
                              THEN [v.node EXCEPT !.Name = name] ELSE v.node))

LetAssignExpected(e2, name) ==
    IF ~e2.ok THEN Parsed(e2.p, NilPointer("LetStatement"))
    ELSE LetValueParsed(parseExpression(nextToken(e2.p), LOWEST), name)

LetNameExpected(e1) ==
    IF ~e1.ok THEN Parsed(e1.p, NilPointer("LetStatement"))
    ELSE LetAssignExpected(expectPeek(e1.p, "ASSIGN"), e1.p.curToken.Literal)

parseLetStatement(p) == LetNameExpected(expectPeek(p, "IDENT"))

ReturnValueParsed(v) == Parsed(SkipSemicolon(v.p), ReturnStatement(v.node))

parseReturnStatement(p) == ReturnValueParsed(parseExpression(nextToken(p), LOWEST))

ExpressionParsed(v) == Parsed(SkipSemicolon(v.p), ExpressionStatement(v.node))

parseExpressionStatement(p) == ExpressionParsed(parseExpression(p, LOWEST))

parseStatement(p) ==
    CASE p.curToken.Type = "LET" -> parseLetStatement(p)
      [] p.curToken.Type = "RETURN" -> parseReturnStatement(p)
      [] OTHER -> parseExpressionStatement(p)

(* leftExp := prefix(); then the loop *)
PrefixParsed(leftExp, precedence) == InfixLoop(leftExp.p, leftExp.node, precedence)

parseExpression(p, precedence) ==
    IF p.curToken.Type \notin PrefixTokens
    THEN Parsed(noPrefixParseFnError(p, p.curToken.Type), NilNode)
    ELSE PrefixParsed(prefixParseFns(p), precedence)

(* leftExp = infix(leftExp); then the loop again *)
InfixParsed(r, precedence) == InfixLoop(r.p, r.node, precedence)

(* for !p.peekTokenIs(token.SEMICOLON) && precedence < p.peekPrecedence() *)
InfixLoop(p, leftExp, precedence) ==
    IF ~peekTokenIs(p, "SEMICOLON") /\ precedence < peekPrecedence(p)
    THEN IF p.peekToken.Type \notin InfixTokens THEN Parsed(p, leftExp)
         ELSE InfixParsed(infixParseFns(nextToken(p), leftExp), precedence)
    ELSE Parsed(p, leftExp)

PrefixRightParsed(r, literal) == Parsed(r.p, PrefixExpression(OperatorOf(literal), r.node))

parsePrefixExpression(p) ==
    PrefixRightParsed(parseExpression(nextToken(p), PREFIX), p.curToken.Literal)

InfixRightParsed(r, left, literal) ==
    Parsed(r.p, InfixExpression(left, OperatorOf(literal), r.node))

(* an infix expression whose right operand is parsed at one precedence less *)
parseInfixExpressionRightFirst(p, left) ==
    InfixRightParsed(parseExpression(nextToken(p), curPrecedence(p) - 1), left,
                     p.curToken.Literal)

parseInfixExpression(p, left) ==
    InfixRightParsed(parseExpression(nextToken(p), curPrecedence(p)), left,
                     p.curToken.Literal)

(* parseGroupedExpression: after ")", after the expression *)
GroupedParenExpected(e, exp) ==
    IF ~e.ok THEN Parsed(e.p, NilNode) ELSE Parsed(e.p, exp.node)

GroupedInnerParsed(exp) == GroupedParenExpected(expectPeek(exp.p, "RPAREN"), exp)

parseGroupedExpression(p) == GroupedInnerParsed(parseExpression(nextToken(p), LOWEST))

(* parseIfExpression: after the alternative, after the "{" of else, after *)
(* the consequence, after "{", after ")", after the condition, after "("  *)
IfAlternativeParsed(alt, cond, cons) ==
    Parsed(alt.p, IfExpression(cond.node, cons.node, alt.node))

IfElseBraceExpected(e4, cond, cons) ==
    IF ~e4.ok THEN Parsed(e4.p, NilNode)
    ELSE IfAlternativeParsed(parseBlockStatement(e4.p), cond, cons)

IfConsequenceParsed(cons, cond) ==
    IF ~peekTokenIs(cons.p, "ELSE")
    THEN Parsed(cons.p, IfExpression(cond.node, cons.node, NilNode))
    ELSE IfElseBraceExpected(expectPeek(nextToken(cons.p), "LBRACE"), cond, cons)

IfBraceExpected(e3, cond) ==
    IF ~e3.ok THEN Parsed(e3.p, NilNode)
    ELSE IfConsequenceParsed(parseBlockStatement(e3.p), cond)

IfRParenExpected(e2, cond) ==
    IF ~e2.ok THEN Parsed(e2.p, NilNode)
    ELSE IfBraceExpected(expectPeek(e2.p, "LBRACE"), cond)

IfConditionParsed(cond) == IfRParenExpected(expectPeek(cond.p, "RPAREN"), cond)

IfLParenExpected(e1) ==
    IF ~e1.ok THEN Parsed(e1.p, NilNode)
    ELSE IfConditionParsed(parseExpression(nextToken(e1.p), LOWEST))

parseIfExpression(p) == IfLParenExpected(expectPeek(p, "LPAREN"))

(* stmt := p.parseStatement(); append unless nil; p.nextToken() *)
BlockStatementParsed(stmt, stmts) ==
    BlockLoop(nextToken(stmt.p),
              IF stmt.node # NilNode THEN Append(stmts, stmt.node) ELSE stmts)

(* for !p.curTokenIs(token.RBRACE) && !p.curTokenIs(token.EOF) *)
BlockLoop(p, stmts) ==
    IF curTokenIs(p, "RBRACE") \/ curTokenIs(p, "EOF") THEN Parsed(p, BlockStatement(stmts))
    ELSE BlockStatementParsed(parseStatement(p), stmts)

parseBlockStatement(p) == BlockLoop(nextToken(p), <<>>)

(* for p.peekTokenIs(token.COMMA): the identifiers after the first *)
RECURSIVE ParametersLoop(_, _)
ParametersLoop(p, identifiers) ==
    IF peekTokenIs(p, "COMMA")
    THEN ParametersLoop(nextToken(nextToken(p)),
                        Append(identifiers, nextToken(nextToken(p)).curToken.Literal))
    ELSE [p |-> p, list |-> identifiers]

(* parseFunctionParameters: after ")", after the loop, at the first identifier *)
ParametersParenExpected(e, r) ==
    IF ~e.ok THEN [p |-> e.p, list |-> <<>>] ELSE [p |-> e.p, list |-> r.list]

ParametersListed(r) == ParametersParenExpected(expectPeek(r.p, "RPAREN"), r)

ParametersFirst(p1) == ParametersListed(ParametersLoop(p1, <<p1.curToken.Literal>>))

(* parseFunctionParameters: list is <<>> for the nil slice as well *)
parseFunctionParameters(p) ==
    IF peekTokenIs(p, "RPAREN") THEN [p |-> nextToken(p), list |-> <<>>]
    ELSE ParametersFirst(nextToken(p))

(* parseFunctionLiteral: after the body, after "{", after the parameters, after "(" *)
FunctionBodyParsed(body, params) ==
    Parsed(body.p, FunctionLiteral(<<>>, params.list, body.node))

FunctionBraceExpected(e2, params) ==
    IF ~e2.ok THEN Parsed(e2.p, NilNode)
    ELSE FunctionBodyParsed(parseBlockStatement(e2.p), params)

FunctionParametersParsed(params) ==
    FunctionBraceExpected(expectPeek(params.p, "LBRACE"), params)

FunctionParenExpected(e1) ==
    IF ~e1.ok THEN Parsed(e1.p, NilNode)
    ELSE FunctionParametersParsed(parseFunctionParameters(e1.p))

parseFunctionLiteral(p) == FunctionParenExpected(expectPeek(p, "LPAREN"))

ListElementParsed(r, list) == ExpressionListLoop(r.p, Append(list, r.node))

ExpressionListLoop(p, list) ==
    IF peekTokenIs(p, "COMMA")
    THEN ListElementParsed(parseExpression(nextToken(nextToken(p)), LOWEST), list)
    ELSE [p |-> p, list |-> list]

(* parseExpressionList: after the end token, after the loop, after the first *)
ListEndExpected(e, r) ==
    IF ~e.ok THEN [p |-> e.p, list |-> <<>>] ELSE [p |-> e.p, list |-> r.list]

ListLooped(r, end) == ListEndExpected(expectPeek(r.p, end), r)

ListFirstParsed(first, end) == ListLooped(ExpressionListLoop(first.p, <<first.node>>), end)

(* parseExpressionList(end): list is <<>> for the nil slice as well *)
parseExpressionList(p, end) ==
    IF peekTokenIs(p, end) THEN [p |-> nextToken(p), list |-> <<>>]
    ELSE ListFirstParsed(parseExpression(nextToken(p), LOWEST), end)

CallArgumentsParsed(args, function) == Parsed(args.p, CallExpression(function, args.list))

parseCallExpression(p, function) ==
    CallArgumentsParsed(parseExpressionList(p, "RPAREN"), function)

ArrayElementsParsed(elems) == Parsed(elems.p, ArrayLiteral(elems.list))

parseArrayLiteral(p) == ArrayElementsParsed(parseExpressionList(p, "RBRACKET"))

(* parseIndexExpression: after "]", after the index *)
IndexBracketExpected(e, index, left) ==
    IF ~e.ok THEN Parsed(e.p, NilNode) ELSE Parsed(e.p, IndexExpression(left, index.node))

IndexParsed(index, left) == IndexBracketExpected(expectPeek(index.p, "RBRACKET"), index, left)

parseIndexExpression(p, left) == IndexParsed(parseExpression(nextToken(p), LOWEST), left)

(* one iteration of parseHashLiteral's loop: after ",", after the pair is *)
(* stored, after ":", after the key; ok is FALSE when it returned nil     *)
HashCommaExpected(e2, added) ==
    IF ~e2.ok THEN [p |-> e2.p, pairs |-> added, ok |-> FALSE]
    ELSE HashLoop(e2.p, added)

HashPairAdded(value, added) ==
    IF peekTokenIs(value.p, "RBRACE") THEN HashLoop(value.p, added)
    ELSE HashCommaExpected(expectPeek(value.p, "COMMA"), added)

HashValueParsed(value, key, pairs) ==
    HashPairAdded(value, Append(pairs, [Key |-> key.node, Value |-> value.node]))

HashColonExpected(e1, key, pairs) ==
    IF ~e1.ok THEN [p |-> e1.p, pairs |-> pairs, ok |-> FALSE]
    ELSE HashValueParsed(parseExpression(nextToken(e1.p), LOWEST), key, pairs)

HashKeyParsed(key, pairs) == HashColonExpected(expectPeek(key.p, "COLON"), key, pairs)

(* for !p.peekTokenIs(token.RBRACE) *)
HashLoop(p, pairs) ==
    IF peekTokenIs(p, "RBRACE") THEN [p |-> p, pairs |-> pairs, ok |-> TRUE]
    ELSE HashKeyParsed(parseExpression(nextToken(p), LOWEST), pairs)

HashBraceExpected(e, r) ==
    IF ~e.ok THEN Parsed(e.p, NilNode) ELSE Parsed(e.p, HashLiteral(r.pairs))

HashLooped(r) ==
    IF ~r.ok THEN Parsed(r.p, NilNode) ELSE HashBraceExpected(expectPeek(r.p, "RBRACE"), r)

parseHashLiteral(p) == HashLooped(HashLoop(p, <<>>))

(* prefix := p.prefixParseFns[p.curToken.Type]; prefix() *)
prefixParseFns(p) ==
    CASE p.curToken.Type = "IDENT" -> parseIdentifier(p)
      [] p.curToken.Type = "INT" -> parseIntegerLiteral(p)
      [] p.curToken.Type \in {"BANG", "MINUS"} -> parsePrefixExpression(p)
      [] p.curToken.Type \in {"TRUE", "FALSE"} -> parseBoolean(p)
      [] p.curToken.Type = "LPAREN" -> parseGroupedExpression(p)
      [] p.curToken.Type = "IF" -> parseIfExpression(p)
      [] p.curToken.Type = "FUNCTION" -> parseFunctionLiteral(p)
      [] p.curToken.Type = "STRING" -> parseStringLiteral(p)
      [] p.curToken.Type = "LBRACKET" -> parseArrayLiteral(p)
      [] p.curToken.Type = "LBRACE" -> parseHashLiteral(p)

(* infix := p.infixParseFns[p.curToken.Type]; infix(left) *)
infixParseFns(p, left) ==
    CASE p.curToken.Type = "LPAREN" -> parseCallExpression(p, left)
      [] p.curToken.Type = "LBRACKET" -> parseIndexExpression(p, left)
      [] OTHER -> parseInfixExpression(p, left)

ProgramStatementParsed(stmt, stmts) ==
    [p |-> nextToken(stmt.p),
     stmts |-> IF stmt.node # NilNode THEN Append(stmts, stmt.node) ELSE stmts]

(* an iteration that leaves out the p.nextToken() at its end *)
ProgramStatementKept(stmt, stmts) ==
    [p |-> stmt.p,
     stmts |-> IF stmt.node # NilNode THEN Append(stmts, stmt.node) ELSE stmts]

ParseProgramStepStaying(p, stmts) == ProgramStatementKept(parseStatement(p), stmts)

(* one iteration of ParseProgram's loop *)
ParseProgramStep(p, stmts) == ProgramStatementParsed(parseStatement(p), stmts)

RECURSIVE ParseProgramLoop(_, _)
ProgramStepDone(r) == ParseProgramLoop(r.p, r.stmts)

ParseProgramLoop(p, stmts) ==
    IF curTokenIs(p, "EOF") THEN Parsed(p, Program(stmts))
    ELSE ProgramStepDone(ParseProgramStep(p, stmts))

ParseProgram(p) == ParseProgramLoop(p, <<>>)

(* the parser of a run and the statements ParseProgram has collected so far *)
NoParser == [p |-> NewParser(NewLexer(<<>>)), stmts |-> <<>>]

(***************************************************************************)
(* package object: run-time values.  Objects are Go pointers: the shared   *)
(* True, False and Null, a String, Array or Hash with the address `addr`   *)
(* of its allocation (a constant's index in the pool, or a negative number *)
(* for an object the VM allocated), and a *CompiledFunction as the index   *)
(* `ptr` of the pool slot that holds it.  An interface that was never      *)
(* assigned (an unwritten stack or globals slot) is Nil.                   *)
(***************************************************************************)
StackSize == 2048
GlobalsSize == 65536
MaxFrames == 1024

Nil == [type |-> "nil"]
True == [type |-> BOOLEAN_OBJ, Bool |-> TRUE]
False == [type |-> BOOLEAN_OBJ, Bool |-> FALSE]
Null == [type |-> NULL_OBJ]
Integer(n) == [type |-> INTEGER_OBJ, Value |-> n]
StringObj(s, a) == [type |-> STRING_OBJ, Str |-> s, addr |-> a]
ArrayObj(elems, a) == [type |-> ARRAY_OBJ, Elements |-> elems, addr |-> a]
HashObj(pairs, a) == [type |-> HASH_OBJ, Pairs |-> pairs, addr |-> a]
FnRef(k) == [type |-> COMPILED_FUNCTION_OBJ, ptr |-> k]
BuiltinObj(i) == [type |-> BUILTIN_OBJ, index |-> i]
ErrorObj(msg) == [type |-> "ERROR", Message |-> msg]

(* the pointer the VM gets when it reads constants[k] *)
ConstValue(constants, k) ==
    LET o == constants[k + 1]
    IN CASE o.type = INTEGER_OBJ -> Integer(o.Value)
         [] o.type = STRING_OBJ -> StringObj(o.Str, k)
         [] OTHER -> FnRef(k)

(* a == b on two non-nil object pointers *)
SamePointer(a, b) ==
    /\ a.type = b.type
    /\ CASE a.type = BOOLEAN_OBJ -> a.Bool = b.Bool
         [] a.type = NULL_OBJ -> TRUE
         [] a.type = INTEGER_OBJ -> FALSE
         [] a.type = COMPILED_FUNCTION_OBJ -> a.ptr = b.ptr
         [] a.type = BUILTIN_OBJ -> a.index = b.index
         [] a.type \in {STRING_OBJ, ARRAY_OBJ, HASH_OBJ} -> a.addr = b.addr
         [] OTHER -> FALSE

(* uint64(n) as its eight bytes, least significant first *)
RECURSIVE U64Bytes(_, _)
U64Bytes(n, k) == IF k = 0 THEN <<>> ELSE <<n % 256>> \o U64Bytes(n \div 256, k - 1)

RECURSIVE BitXor(_, _)
BitXor(a, b) ==
    IF a = 0 /\ b = 0 THEN 0
    ELSE (((a % 2) + (b % 2)) % 2) + 2 * BitXor(a \div 2, b \div 2)

(* h * m for the eight-byte h and a small m, modulo 2^64 *)
RECURSIVE MulSmall(_, _, _)
MulSmall(h, m, carry) ==
    IF h = <<>> THEN <<>>
    ELSE LET t == Head(h) * m + carry
         IN <<t % 256>> \o MulSmall(Tail(h), m, t \div 256)

RECURSIVE AddBytes(_, _, _)
AddBytes(a, b, carry) ==
    IF a = <<>> THEN <<>>
    ELSE LET t == Head(a) + Head(b) + carry
         IN <<t % 256>> \o AddBytes(Tail(a), Tail(b), t \div 256)

(* hash/fnv New64a: offset basis 0xcbf29ce484222325, prime 2^40 + 0x1b3 *)
FnvOffset64 == <<37, 35, 34, 132, 228, 156, 242, 203>>
FnvMulPrime(h) ==
    AddBytes(MulSmall(h, 435, 0), <<0, 0, 0, 0, 0>> \o SubSeq(h, 1, 3), 0)

RECURSIVE Fnv64a(_, _)
Fnv64a(h, bytes) ==
    IF bytes = <<>> THEN h
    ELSE Fnv64a(FnvMulPrime([h EXCEPT ![1] = BitXor(@, Head(bytes))]), Tail(bytes))

Hashable(o) == o.type \in {INTEGER_OBJ, BOOLEAN_OBJ, STRING_OBJ}

(* a HashKey that leaves the object's type out *)
HashKeyWithoutType(o) ==
    [Type |-> "",
     Value |-> CASE o.type = INTEGER_OBJ -> U64Bytes(o.Value, 8)
                 [] o.type = BOOLEAN_OBJ -> U64Bytes(IF o.Bool THEN 1 ELSE 0, 8)
                 [] o.type = STRING_OBJ -> Fnv64a(FnvOffset64, o.Str)]

(* Integer.HashKey, Boolean.HashKey, String.HashKey *)
HashKey(o) ==
    CASE o.type = INTEGER_OBJ -> [Type |-> INTEGER_OBJ, Value |-> U64Bytes(o.Value, 8)]
      [] o.type = BOOLEAN_OBJ ->
            [Type |-> BOOLEAN_OBJ, Value |-> U64Bytes(IF o.Bool THEN 1 ELSE 0, 8)]
      [] o.type = STRING_OBJ -> [Type |-> STRING_OBJ, Value |-> Fnv64a(FnvOffset64, o.Str)]


(***************************************************************************)
(* package vm.  A VM value is the record                                   *)
(*   constants, instructions (those of mainFn), stack, sp, globals,        *)
(*   frames, framesIndex, allocs (objects allocated so far).               *)
(* stack, globals and frames are the fixed-size Go arrays; a slot that was *)
(* never written is absent from the function here and reads as Nil.        *)
(* Frame.fn is the pool index of the frame's *CompiledFunction, MainFn for *)
(* the function New wraps the top-level instructions in.                   *)
(* Every operation yields an outcome: the VM after it and kind "ok", kind  *)
(* "error" (the Go error msg is returned) or kind "panic".                 *)
(***************************************************************************)
MainFn == -1

NewFrame(fn, basePointer) == [fn |-> fn, ip |-> -1, basePointer |-> basePointer]

(* New(bytecode) followed by vm.globals = s: NewWithGlobalStore(bytecode, s) *)
NewWithGlobalStore(bytecode, s) ==
    [constants |-> bytecode.Constants, instructions |-> bytecode.Instructions,
     stack |-> <<>>, sp |-> 0, globals |-> s,
     frames |-> [i \in {0} |-> NewFrame(MainFn, 0)], framesIndex |-> 1, allocs |-> 0]

Ok(v) == [v |-> v, kind |-> "ok", msg |-> ""]
Error(v, m) == [v |-> v, kind |-> "error", msg |-> m]
Panic(v, m) == [v |-> v, kind |-> "panic", msg |-> m]

SlotAt(arr, i) == IF i \in DOMAIN arr THEN arr[i] ELSE Nil
SlotPut(arr, i, o) == [k \in (DOMAIN arr) \cup {i} |-> IF k = i THEN o ELSE arr[k]]
InStack(i) == i >= 0 /\ i < StackSize

currentFrame(v) == v.frames[v.framesIndex - 1]

FnInstructions(v, fn) == IF fn = MainFn THEN v.instructions ELSE v.constants[fn + 1].Instructions

(* Frame.Instructions() *)
Instructions(v, frame) == FnInstructions(v, frame.fn)

SetIp(v, ip) == [v EXCEPT !.frames[v.framesIndex - 1].ip = ip]
AddIp(v, n) == [v EXCEPT !.frames[v.framesIndex - 1].ip = @ + n]

(* the address of the next object the VM allocates, and the VM after it *)
NewAddr(v) == -(v.allocs + 1)
Alloc(v) == [v EXCEPT !.allocs = @ + 1]

push(v, o) ==
    IF v.sp >= StackSize THEN Error(v, "stack overflow")
    ELSE IF ~InStack(v.sp) THEN Panic(v, "index out of range")
    ELSE Ok([v EXCEPT !.stack = SlotPut(@, v.sp, o), !.sp = @ + 1])

(* pop: the outcome carries the popped object as val *)
pop(v) ==
    IF ~InStack(v.sp - 1)
    THEN [v |-> v, kind |-> "panic", msg |-> "index out of range", val |-> Nil]
    ELSE [v |-> [v EXCEPT !.sp = @ - 1], kind |-> "ok", msg |-> "",
          val |-> SlotAt(v.stack, v.sp - 1)]

isTruthy(obj) ==
    CASE obj.type = BOOLEAN_OBJ -> obj.Bool
      [] obj.type = NULL_OBJ -> FALSE
      [] OTHER -> TRUE

nativeBoolToBooleanObject(b) == IF b THEN True ELSE False

(* Go's integer division truncates toward zero *)
GoDiv(a, b) ==
    LET q == (IF a < 0 THEN -a ELSE a) \div (IF b < 0 THEN -b ELSE b)
    IN IF (a < 0) # (b < 0) THEN -q ELSE q

executeBinaryIntegerOperation(v, op, left, right) ==
    CASE op = OpAdd -> push(v, Integer(left.Value + right.Value))
      [] op = OpSub -> push(v, Integer(left.Value - right.Value))
      [] op = OpMul -> push(v, Integer(left.Value * right.Value))
      [] op = OpDiv -> IF right.Value = 0 THEN Panic(v, "integer divide by zero")
                       ELSE push(v, Integer(GoDiv(left.Value, right.Value)))
      [] OTHER -> Error(v, "unknown integer operation")

executeBinaryStringOperation(v, op, left, right) ==
    IF op # OpAdd THEN Error(v, "unknown string operation")
    ELSE push(Alloc(v), StringObj(left.Str \o right.Str, NewAddr(v)))

executeBinaryOperation(v, op) ==
    LET r == pop(v)
        l == pop(r.v)
    IN IF r.kind # "ok" THEN Panic(v, r.msg)
       ELSE IF l.kind # "ok" THEN Panic(v, l.msg)
       ELSE IF l.val.type = "nil" \/ r.val.type = "nil" THEN Panic(v, "nil pointer dereference")
       ELSE IF l.val.type = INTEGER_OBJ /\ r.val.type = INTEGER_OBJ
       THEN executeBinaryIntegerOperation(l.v, op, l.val, r.val)
       ELSE IF l.val.type = STRING_OBJ /\ r.val.type = STRING_OBJ
       THEN executeBinaryStringOperation(l.v, op, l.val, r.val)
       ELSE Error(l.v, "unsupported types for binary operation")

executeIntegerComparison(v, op, left, right) ==
    CASE op = OpGreaterThan -> push(v, nativeBoolToBooleanObject(left.Value > right.Value))
      [] op = OpEqual -> push(v, nativeBoolToBooleanObject(left.Value = right.Value))
      [] op = OpNotEqual -> push(v, nativeBoolToBooleanObject(left.Value # right.Value))
      [] OTHER -> Error(v, "unknown operator")

executeComparison(v, op) ==
    LET r == pop(v)
        l == pop(r.v)
    IN IF r.kind # "ok" THEN Panic(v, r.msg)
       ELSE IF l.kind # "ok" THEN Panic(v, l.msg)
       ELSE IF l.val.type = "nil" \/ r.val.type = "nil" THEN Panic(v, "nil pointer dereference")
       ELSE IF l.val.type = INTEGER_OBJ /\ r.val.type = INTEGER_OBJ
       THEN executeIntegerComparison(l.v, op, l.val, r.val)
       ELSE CASE op = OpEqual -> push(l.v, nativeBoolToBooleanObject(SamePointer(r.val, l.val)))
              [] op = OpNotEqual -> push(l.v, nativeBoolToBooleanObject(~SamePointer(r.val, l.val)))
              [] OTHER -> Error(l.v, "unknown operator")

executeBangOperator(v) ==
    LET o == pop(v)
    IN IF o.kind # "ok" THEN Panic(v, o.msg)
       ELSE IF o.val = True THEN push(o.v, False)
       ELSE IF o.val = False THEN push(o.v, True)
       ELSE IF o.val = Null THEN push(o.v, True)
       ELSE push(o.v, False)

executeMinusOperator(v) ==
    LET o == pop(v)
    IN IF o.kind # "ok" THEN Panic(v, o.msg)
       ELSE IF o.val.type = "nil" THEN Panic(v, "nil pointer dereference")
       ELSE IF o.val.type # INTEGER_OBJ THEN Error(o.v, "unsupported type for negation")
       ELSE push(o.v, Integer(-o.val.Value))


(* the objects stack[startIndex], ..., stack[endIndex - 1] *)
StackSlice(v, startIndex, endIndex) ==
    [i \in 1..(endIndex - startIndex) |-> SlotAt(v.stack, startIndex + i - 1)]

(* buildArray: the new *object.Array (the caller allocates its address) *)
buildArray(v, startIndex, endIndex) ==
    ArrayObj(StackSlice(v, startIndex, endIndex), NewAddr(v))

(* a pair is written only when its key is not in the map yet *)
RECURSIVE HashPairsFirstWins(_, _, _, _)
HashPairsFirstWins(v, i, endIndex, pairs) ==
    IF i >= endIndex THEN pairs
    ELSE LET key == SlotAt(v.stack, i)
             value == SlotAt(v.stack, i + 1)
         IN HashPairsFirstWins(v, i + 2, endIndex,
                IF HashKey(key) \in DOMAIN pairs THEN pairs
                ELSE SlotPut(pairs, HashKey(key), [Key |-> key, Value |-> value]))

(* the map buildHash fills: the pairs stack[i], stack[i+1] for            *)
(* i = startIndex, startIndex + 2, ... below endIndex, written in order   *)
RECURSIVE HashPairs(_, _, _, _)
HashPairs(v, i, endIndex, pairs) ==
    IF i >= endIndex THEN pairs
    ELSE LET key == SlotAt(v.stack, i)
             value == SlotAt(v.stack, i + 1)
         IN HashPairs(v, i + 2, endIndex,
                      SlotPut(pairs, HashKey(key), [Key |-> key, Value |-> value]))

(* the first i in startIndex, startIndex + 2, ... whose key is not       *)
(* Hashable or whose slots lie outside the stack; endIndex if none       *)
RECURSIVE FirstBadPair(_, _, _)
FirstBadPair(v, i, endIndex) ==
    IF i >= endIndex THEN endIndex
    ELSE IF ~InStack(i) \/ ~InStack(i + 1) THEN i
    ELSE IF ~Hashable(SlotAt(v.stack, i)) THEN i
    ELSE FirstBadPair(v, i + 2, endIndex)

buildHash(v, startIndex, endIndex) ==
    LET bad == FirstBadPair(v, startIndex, endIndex)
    IN IF bad >= endIndex
       THEN [kind |-> "ok", msg |-> "",
             val |-> HashObj(HashPairs(v, startIndex, endIndex, <<>>), NewAddr(v))]
       ELSE IF ~InStack(bad) \/ ~InStack(bad + 1)
       THEN [kind |-> "panic", msg |-> "index out of range", val |-> Nil]
       ELSE IF SlotAt(v.stack, bad).type = "nil"
       THEN [kind |-> "panic", msg |-> "nil pointer dereference", val |-> Nil]
       ELSE [kind |-> "error", msg |-> "unusable as hash key", val |-> Nil]

(* the upper bound taken one too low *)
executeArrayIndexOffByOne(v, array, index) ==
    LET i == index.Value
        max == Len(array.Elements) - 1
    IN IF i < 0 \/ i >= max THEN push(v, Null)
       ELSE push(v, array.Elements[i + 1])

executeArrayIndex(v, array, index) ==
    LET i == index.Value
        max == Len(array.Elements) - 1
    IN IF i < 0 \/ i > max THEN push(v, Null)
       ELSE push(v, array.Elements[i + 1])

executeHashIndex(v, hash, index) ==
    IF ~Hashable(index)
    THEN IF index.type = "nil" THEN Panic(v, "nil pointer dereference")
         ELSE Error(v, "unusable as hash key")
    ELSE IF HashKey(index) \notin DOMAIN hash.Pairs THEN push(v, Null)
    ELSE push(v, hash.Pairs[HashKey(index)].Value)

executeIndexExpression(v, left, index) ==
    IF left.type = "nil" THEN Panic(v, "nil pointer dereference")
    ELSE IF left.type = ARRAY_OBJ /\ index.type = "nil" THEN Panic(v, "nil pointer dereference")
    ELSE IF left.type = ARRAY_OBJ /\ index.type = INTEGER_OBJ THEN executeArrayIndex(v, left, index)
    ELSE IF left.type = HASH_OBJ THEN executeHashIndex(v, left, index)
    ELSE Error(v, "index operator not supported")

(***************************************************************************)
(* object.Builtins, in the order the compiler defines them: len, first,   *)
(* last, rest, push, puts.  BuiltinFn(i, args, a) is the object the i-th   *)
(* function returns for args, a the address of an array it allocates; Nil  *)
(* when the function returns nil.                                          *)
(***************************************************************************)
NumBuiltins == Len(BuiltinNames)

BuiltinLen(args) ==
    IF Len(args) # 1 THEN ErrorObj("wrong number of arguments")
    ELSE CASE args[1].type = ARRAY_OBJ -> Integer(Len(args[1].Elements))
           [] args[1].type = STRING_OBJ -> Integer(Len(args[1].Str))
           [] OTHER -> ErrorObj("argument to len not supported")

BuiltinFirst(args) ==
    IF Len(args) # 1 THEN ErrorObj("wrong number of arguments")
    ELSE IF args[1].type # ARRAY_OBJ THEN ErrorObj("argument to first must be ARRAY")
    ELSE IF Len(args[1].Elements) > 0 THEN args[1].Elements[1]
    ELSE Nil

BuiltinLast(args) ==
    IF Len(args) # 1 THEN ErrorObj("wrong number of arguments")
    ELSE IF args[1].type # ARRAY_OBJ THEN ErrorObj("argument to last must be ARRAY")
    ELSE IF Len(args[1].Elements) > 0 THEN args[1].Elements[Len(args[1].Elements)]
    ELSE Nil

BuiltinRest(args, a) ==
    IF Len(args) # 1 THEN ErrorObj("wrong number of arguments")
    ELSE IF args[1].type # ARRAY_OBJ THEN ErrorObj("argument to rest must be ARRAY")
    ELSE IF Len(args[1].Elements) > 0 THEN ArrayObj(Tail(args[1].Elements), a)
    ELSE Nil

BuiltinPush(args, a) ==
    IF Len(args) # 2 THEN ErrorObj("wrong number of arguments")
    ELSE IF args[1].type # ARRAY_OBJ THEN ErrorObj("argument to push must be ARRAY")
    ELSE ArrayObj(Append(args[1].Elements, args[2]), a)

BuiltinFn(i, args, a) ==
    CASE i = 0 -> BuiltinLen(args)
      [] i = 1 -> BuiltinFirst(args)
      [] i = 2 -> BuiltinLast(args)
      [] i = 3 -> BuiltinRest(args, a)
      [] i = 4 -> BuiltinPush(args, a)
      [] OTHER -> Nil

pushFrame(v, f) ==
    [v EXCEPT !.frames = SlotPut(@, v.framesIndex, f), !.framesIndex = @ + 1]

popFrame(v) == [v EXCEPT !.framesIndex = @ - 1]

(* a callFunction that pushes the frame before it compares the counts *)
callFunctionFrameFirst(v, fn, numArgs) ==
    LET f == v.constants[fn + 1]
        frame == NewFrame(fn, v.sp - numArgs)
    IN IF v.framesIndex >= MaxFrames THEN Panic(v, "index out of range")
       ELSE IF numArgs # f.NumParameters
       THEN Error(pushFrame(v, frame), "wrong number of arguments")
       ELSE Ok([pushFrame(v, frame) EXCEPT !.sp = frame.basePointer + f.NumLocals])

callFunction(v, fn, numArgs) ==
    LET f == v.constants[fn + 1]
        frame == NewFrame(fn, v.sp - numArgs)
    IN IF numArgs # f.NumParameters THEN Error(v, "wrong number of arguments")
       ELSE IF v.framesIndex >= MaxFrames THEN Panic(v, "index out of range")
       ELSE Ok([pushFrame(v, frame) EXCEPT !.sp = frame.basePointer + f.NumLocals])

(* a callBuiltin that pushes the result above the built-in *)
callBuiltinAboveCallee(v, builtin, numArgs) ==
    IF v.sp > StackSize \/ v.sp - numArgs < 0 THEN Panic(v, "slice bounds out of range")
    ELSE LET args == StackSlice(v, v.sp - numArgs, v.sp)
             result == BuiltinFn(builtin.index, args, NewAddr(v))
             v1 == [Alloc(v) EXCEPT !.sp = v.sp - numArgs]
             pushed == push(v1, IF result.type # "nil" THEN result ELSE Null)
         IN Ok(pushed.v)

callBuiltin(v, builtin, numArgs) ==
    IF v.sp > StackSize \/ v.sp - numArgs < 0 THEN Panic(v, "slice bounds out of range")
    ELSE LET args == StackSlice(v, v.sp - numArgs, v.sp)
             result == BuiltinFn(builtin.index, args, NewAddr(v))
             v1 == [Alloc(v) EXCEPT !.sp = v.sp - numArgs - 1]
             pushed == push(v1, IF result.type # "nil" THEN result ELSE Null)
         IN Ok(pushed.v)

executeCall(v, numArgs) ==
    IF ~InStack(v.sp - 1 - numArgs) THEN Panic(v, "index out of range")
    ELSE LET callee == SlotAt(v.stack, v.sp - 1 - numArgs)
         IN CASE callee.type = COMPILED_FUNCTION_OBJ -> callFunction(v, callee.ptr, numArgs)
              [] callee.type = BUILTIN_OBJ -> callBuiltin(v, callee, numArgs)
              [] OTHER -> Error(v, "calling non-function and non-built-in")


(***************************************************************************)
(* VM.Run.  Each case of the dispatch switch is an operator caseOp...      *)
(* taking the VM after `vm.currentFrame().ip++`, the frame's instructions  *)
(* and ip, and yielding the outcome of the case.                           *)
(***************************************************************************)
RunCondition(v) == currentFrame(v).ip < Len(Instructions(v, currentFrame(v))) - 1

(* ins[ip+1] exists; ins[ip+1:] holds the two bytes binary.BigEndian.Uint16 needs *)
Has1(ins, ip) == ip + 1 <= Len(ins) - 1
Has2(ins, ip) == ip + 2 <= Len(ins) - 1
Uint16At(ins, ip) == ReadUint16(SubSeq(ins, ip + 2, Len(ins)))
Uint8At(ins, ip) == ins[ip + 2]

caseOpConstant(v, ins, ip) ==
    IF ~Has2(ins, ip) THEN Panic(v, "index out of range")
    ELSE LET constIndex == Uint16At(ins, ip)
             v1 == AddIp(v, 2)
         IN IF constIndex >= Len(v.constants) THEN Panic(v1, "index out of range")
            ELSE push(v1, ConstValue(v.constants, constIndex))

caseOpJump(v, ins, ip) ==
    IF ~Has2(ins, ip) THEN Panic(v, "index out of range")
    ELSE Ok(SetIp(v, Uint16At(ins, ip) - 1))

caseOpJumpNotTruthy(v, ins, ip) ==
    IF ~Has2(ins, ip) THEN Panic(v, "index out of range")
    ELSE LET pos == Uint16At(ins, ip)
             condition == pop(AddIp(v, 2))
         IN IF condition.kind # "ok" THEN Panic(v, condition.msg)
            ELSE IF ~isTruthy(condition.val) THEN Ok(SetIp(condition.v, pos - 1))
            ELSE Ok(condition.v)

caseOpSetGlobal(v, ins, ip) ==
    IF ~Has2(ins, ip) THEN Panic(v, "index out of range")
    ELSE LET globalIndex == Uint16At(ins, ip)
             p == pop(AddIp(v, 2))
         IN IF p.kind # "ok" THEN Panic(v, p.msg)
            ELSE Ok([p.v EXCEPT !.globals = SlotPut(@, globalIndex, p.val)])

caseOpGetGlobal(v, ins, ip) ==
    IF ~Has2(ins, ip) THEN Panic(v, "index out of range")
    ELSE push(AddIp(v, 2), SlotAt(v.globals, Uint16At(ins, ip)))

caseOpSetLocal(v, ins, ip) ==
    IF ~Has1(ins, ip) THEN Panic(v, "index out of range")
    ELSE LET localIndex == Uint8At(ins, ip)
             frame == currentFrame(v)
             p == pop(AddIp(v, 1))
         IN IF p.kind # "ok" THEN Panic(v, p.msg)
            ELSE IF ~InStack(frame.basePointer + localIndex) THEN Panic(v, "index out of range")
            ELSE Ok([p.v EXCEPT !.stack = SlotPut(@, frame.basePointer + localIndex, p.val)])

caseOpGetLocal(v, ins, ip) ==
    IF ~Has1(ins, ip) THEN Panic(v, "index out of range")
    ELSE LET localIndex == Uint8At(ins, ip)
             frame == currentFrame(v)
         IN IF ~InStack(frame.basePointer + localIndex) THEN Panic(v, "index out of range")
            ELSE push(AddIp(v, 1), SlotAt(v.stack, frame.basePointer + localIndex))

caseOpGetBuiltin(v, ins, ip) ==
    IF ~Has1(ins, ip) THEN Panic(v, "index out of range")
    ELSE LET builtinIndex == Uint8At(ins, ip)
         IN IF builtinIndex >= NumBuiltins THEN Panic(v, "index out of range")
            ELSE push(AddIp(v, 1), BuiltinObj(builtinIndex))

caseOpArray(v, ins, ip) ==
    IF ~Has2(ins, ip) THEN Panic(v, "index out of range")
    ELSE LET numElements == Uint16At(ins, ip)
             v1 == AddIp(v, 2)
         IN IF numElements > 0 /\ (~InStack(v.sp - numElements) \/ ~InStack(v.sp - 1))
            THEN Panic(v1, "index out of range")
            ELSE push([Alloc(v1) EXCEPT !.sp = v.sp - numElements],
                      buildArray(v1, v.sp - numElements, v.sp))

caseOpHash(v, ins, ip) ==
    IF ~Has2(ins, ip) THEN Panic(v, "index out of range")
    ELSE LET numElements == Uint16At(ins, ip)
             v1 == AddIp(v, 2)
             hash == buildHash(v1, v.sp - numElements, v.sp)
         IN IF hash.kind = "panic" THEN Panic(v1, hash.msg)
            ELSE IF hash.kind = "error" THEN Error(v1, hash.msg)
            ELSE push([Alloc(v1) EXCEPT !.sp = v.sp - numElements], hash.val)

caseOpIndex(v) ==
    LET index == pop(v)
        left == pop(index.v)
    IN IF index.kind # "ok" THEN Panic(v, index.msg)
       ELSE IF left.kind # "ok" THEN Panic(v, left.msg)
       ELSE executeIndexExpression(left.v, left.val, index.val)

caseOpCall(v, ins, ip) ==
    IF ~Has1(ins, ip) THEN Panic(v, "index out of range")
    ELSE executeCall(AddIp(v, 1), Uint8At(ins, ip))

(* an OpReturnValue that leaves the callee on the stack below the value *)
caseOpReturnValueAboveCallee(v) ==
    LET returnValue == pop(v)
        frame == currentFrame(v)
    IN IF returnValue.kind # "ok" THEN Panic(v, returnValue.msg)
       ELSE IF v.framesIndex <= 1
       THEN push([popFrame(returnValue.v) EXCEPT !.sp = frame.basePointer - 1], returnValue.val)
       ELSE push([popFrame(returnValue.v) EXCEPT !.sp = frame.basePointer], returnValue.val)

caseOpReturnValue(v) ==
    LET returnValue == pop(v)
        frame == currentFrame(v)
    IN IF returnValue.kind # "ok" THEN Panic(v, returnValue.msg)
       ELSE push([popFrame(returnValue.v) EXCEPT !.sp = frame.basePointer - 1], returnValue.val)

caseOpReturn(v) ==
    LET frame == currentFrame(v)
    IN push([popFrame(v) EXCEPT !.sp = frame.basePointer - 1], Null)

caseOpPop(v) ==
    LET p == pop(v)
    IN IF p.kind # "ok" THEN Panic(v, p.msg) ELSE Ok(p.v)

(* the opcodes the dispatch switch has a case for *)
CaseOps ==
    {OpConstant, OpAdd, OpSub, OpMul, OpDiv, OpGreaterThan, OpEqual, OpNotEqual,
     OpMinus, OpBang, OpTrue, OpFalse, OpJump, OpJumpNotTruthy, OpSetGlobal,
     OpGetGlobal, OpSetLocal, OpGetLocal, OpGetBuiltin, OpArray, OpHash, OpIndex,
     OpCall, OpReturnValue, OpReturn, OpNull, OpPop}


(***************************************************************************)
(* The sessions run.  A session is the sequence of lines typed at the      *)
(* prompt, each given as the *ast.Program the parser builds for it.        *)
(***************************************************************************)
nmA == <<97>>
nmB == <<98>>
nmC == <<99>>
nmF == <<102>>
nmG == <<103>>
nmX == <<120>>
nmLen == BuiltinNames[1]
nmFirst == BuiltinNames[2]
nmPush == BuiltinNames[5]
nmNewAdder == <<110, 101, 119, 65, 100, 100, 101, 114>>
nmCounter == <<99, 111, 117, 110, 116, 101, 114>>

Num(n) == IntegerLiteral(n)
Id(name) == Identifier(name)
Expr(e) == ExpressionStatement(e)
Infix(l, op, r) == InfixExpression(l, op, r)
Fn(params, stmts) == FunctionLiteral(<<>>, params, BlockStatement(stmts))
(* parseLetStatement names the function literal a let binds *)
LetFn(name, params, stmts) ==
    LetStatement(name, FunctionLiteral(name, params, BlockStatement(stmts)))
Call(fn, args) == CallExpression(fn, args)
Pair(k, v) == [key |-> k, value |-> v]
Line(stmts) == Program(stmts)

(* bounds of the parametrised programs *)
MaxIndex == 3
NumElements == 3
NumLocalLets == 3

(* [10, 20, ...][i] for i = -1 .. MaxIndex *)
TheArray == ArrayLiteral([k \in 1..NumElements |-> Num(10 * k)])
IndexLiteral(i) == IF i < 0 THEN PrefixExpression("-", Num(-i)) ELSE Num(i)
IndexSessions ==
    [k \in 1..(MaxIndex + 2) |->
        << Line(<<Expr(IndexExpression(TheArray, IndexLiteral(k - 2)))>>) >>]

HashSessions ==
    << << Line(<<Expr(IndexExpression(
              HashLiteral(<<Pair(Num(1), Num(10)), Pair(Infix(Num(0), "+", Num(1)), Num(20))>>),
              Num(1)))>>) >>,
       << Line(<<Expr(IndexExpression(
              HashLiteral(<<Pair(StringLiteral(nmA), Num(1)), Pair(StringLiteral(nmA), Num(2)),
                            Pair(StringLiteral(nmB), Num(3))>>),
              StringLiteral(nmA)))>>) >>,
       << Line(<<Expr(IndexExpression(
              HashLiteral(<<Pair(Num(1), Num(10)), Pair(Num(2), Num(20))>>), Num(3)))>>) >>,
       << Line(<<Expr(IndexExpression(
              HashLiteral(<<Pair(Boolean(TRUE), Num(1)), Pair(Num(1), Num(2))>>),
              Boolean(TRUE)))>>) >>,
       << Line(<<Expr(IndexExpression(
              HashLiteral(<<Pair(Num(1), Num(10))>>), ArrayLiteral(<<Num(1)>>)))>>) >>,
       << Line(<<Expr(HashLiteral(<<Pair(ArrayLiteral(<<Num(1)>>), Num(2))>>))>>) >>,
       << Line(<<Expr(HashLiteral(<<>>))>>) >> >>

BasicSessions ==
    << << Line(<<Expr(Infix(Num(1), "+", Num(2)))>>) >>,
       << Line(<<Expr(Boolean(TRUE)), LetStatement(nmA, Boolean(FALSE))>>) >>,
       << Line(<<Expr(Infix(Infix(Infix(Num(7), "-", Num(2)), "*", Num(3)), "/", Num(2))),
                 Expr(Infix(StringLiteral(nmA), "+", StringLiteral(nmB)))>>) >>,
       << Line(<<Expr(Infix(Num(1), "<", Num(2))),
                 Expr(Infix(Infix(Num(1), ">", Num(2)), "==", Boolean(FALSE))),
                 Expr(Infix(Boolean(TRUE), "!=", Boolean(FALSE)))>>) >>,
       << Line(<<Expr(PrefixExpression("!", Boolean(TRUE))),
                 Expr(PrefixExpression("-", Num(5))),
                 Expr(PrefixExpression("!", Num(5)))>>) >>,
       << Line(<<Expr(IfExpression(Infix(Num(1), "<", Num(2)),
                                   BlockStatement(<<Expr(Num(10))>>),
                                   BlockStatement(<<Expr(Num(20))>>))),
                 Expr(IfExpression(Boolean(FALSE), BlockStatement(<<Expr(Num(10))>>), NilNode))>>) >>,
       << Line(<<LetStatement(nmA, Num(5))>>), Line(<<Expr(Infix(Id(nmA), "+", Num(1)))>>) >>,
       << Line(<<Expr(Id(nmX))>>), Line(<<Expr(Num(1))>>),
          Line(<<Expr(Fn(<<nmA>>, <<Expr(Infix(Id(nmA), "+", Id(nmX)))>>))>>) >>,
       << Line(<<Expr(Infix(Num(1), "+", Boolean(TRUE)))>>),
          Line(<<Expr(PrefixExpression("-", Boolean(TRUE)))>>),
          Line(<<Expr(Call(Num(1), <<>>))>>) >>,
       << Line(<<Expr(Infix(Num(1), "/", Num(0)))>>) >>,
       << Line(<<Expr(Call(Id(nmLen), <<StringLiteral(nmA \o nmB)>>)),
                 Expr(Call(Id(nmPush), <<ArrayLiteral(<<Num(1)>>), Num(2)>>)),
                 Expr(Call(Id(nmFirst), <<ArrayLiteral(<<>>)>>))>>) >> >>

(* let f = fn(g) { let a = true; ... ; g(g) }; f(f) with NumLocalLets lets *)
LocalLets == [k \in 1..NumLocalLets |-> LetStatement(<<96 + k>>, Boolean(TRUE))]

FunctionSessions ==
    << << Line(<<LetFn(nmF, <<nmA>>, <<LetStatement(nmB, Id(nmA)), Expr(Id(nmB))>>),
                 Expr(Call(Id(nmF), <<Num(5)>>))>>) >>,
       << Line(<<LetFn(nmF, <<>>, <<>>), Expr(Call(Id(nmF), <<>>))>>) >>,
       << Line(<<LetFn(nmF, <<nmA>>, <<Expr(Id(nmA))>>), Expr(Call(Id(nmF), <<>>))>>),
          Line(<<Expr(Call(Id(nmF), <<Num(1), Num(2)>>))>>) >>,
       << Line(<<LetFn(nmF, <<>>, <<ReturnStatement(Boolean(TRUE))>>)>>),
          Line(<<Expr(Call(Id(nmF), <<>>))>>) >>,
       (* let newAdder = fn(a) { fn(b) { a + b } }; newAdder(2)(3) *)
       << Line(<<LetFn(nmNewAdder, <<nmA>>,
                       <<Expr(Fn(<<nmB>>, <<Expr(Infix(Id(nmA), "+", Id(nmB)))>>))>>),
                 Expr(Call(Call(Id(nmNewAdder), <<Num(2)>>), <<Num(3)>>))>>) >>,
       (* let counter = fn(x) { if (x > 3) { x } else { counter(x + 1) } }; counter(0) *)
       << Line(<<LetFn(nmCounter, <<nmX>>,
                       <<Expr(IfExpression(Infix(Id(nmX), ">", Num(3)),
                            BlockStatement(<<Expr(Id(nmX))>>),
                            BlockStatement(<<Expr(Call(Id(nmCounter),
                                                 <<Infix(Id(nmX), "+", Num(1))>>))>>)))>>),
                 Expr(Call(Id(nmCounter), <<Num(0)>>))>>) >>,
       (* let f = fn() { f() }; f() *)
       << Line(<<LetFn(nmF, <<>>, <<Expr(Call(Id(nmF), <<>>))>>),
                 Expr(Call(Id(nmF), <<>>))>>) >>,
       << Line(<<LetFn(nmF, <<nmG>>, LocalLets \o <<Expr(Call(Id(nmG), <<Id(nmG)>>))>>),
                 Expr(Call(Id(nmF), <<Id(nmF)>>))>>) >>,
       (* let f = fn(a, b, c) { }; [[0, ...], ...]; f(1, 2, fn() { }): with f and *)
       (* 253 integer literals in 16 rows before 1 and 2, the function literal   *)
       (* of the last statement is constant number 256                           *)
       << Line(<<LetFn(nmF, <<nmA, nmB, nmC>>, <<>>),
                 Expr(ArrayLiteral([r \in 1..16 |->
                        ArrayLiteral([k \in 1..(IF r = 16 THEN 13 ELSE 16) |-> Num(0)])])),
                 Expr(Call(Id(nmF), <<Num(1), Num(2), Fn(<<>>, <<>>)>>))>>) >> >>

(* lines that bind, read and bind again the globals a and b *)
GlobalSessions ==
    << << Line(<<LetStatement(nmA, Num(1))>>),
          Line(<<LetStatement(nmB, Num(2))>>),
          Line(<<Expr(Infix(Id(nmA), "+", Id(nmB)))>>),
          Line(<<LetStatement(nmA, Num(10))>>),
          Line(<<Expr(Infix(Id(nmA), "+", Id(nmB)))>>) >>,
       (* let a = 1 / let a = a + 1 / a *)
       << Line(<<LetStatement(nmA, Num(1))>>),
          Line(<<LetStatement(nmA, Infix(Id(nmA), "+", Num(1)))>>),
          Line(<<Expr(Id(nmA))>>) >>,
       (* let a = 1 / let a = x / a *)
       << Line(<<LetStatement(nmA, Num(1))>>),
          Line(<<LetStatement(nmA, Id(nmX))>>),
          Line(<<Expr(Id(nmA))>>) >> >>

(* lines given as the text the scanner read *)
TextLine(input) == [type |-> "Text", input |-> input]

TextSessions ==
    << << (* the empty line *)
          TextLine(<<>>) >>,
       << (* let 5 = 3; *)
          TextLine(<<108, 101, 116, 32, 53, 32, 61, 32, 51, 59>>),
          (* 1 + 2 *)
          TextLine(<<49, 32, 43, 32, 50>>) >>,
       << (* let a = 1 + 2 * 3; *)
          TextLine(<<108, 101, 116, 32, 97, 32, 61, 32, 49, 32, 43, 32, 50, 32, 42, 32, 51, 59>>),
          (* a - 1 - 2 *)
          TextLine(<<97, 32, 45, 32, 49, 32, 45, 32, 50>>),
          (* if (a > 5) { a } else { 0 } *)
          TextLine(<<105, 102, 32, 40, 97, 32, 62, 32, 53, 41, 32, 123, 32, 97, 32, 125, 32, 101, 108, 115, 101, 32, 123, 32, 48, 32, 125>>) >>,
       << (* fn( *)
          TextLine(<<102, 110, 40>>),
          (* "s" + "t" *)
          TextLine(<<34, 115, 34, 32, 43, 32, 34, 116, 34>>) >>,
       << (* let f = fn() { f; f }; *)
          TextLine(<<108, 101, 116, 32, 102, 32, 61, 32, 102, 110, 40, 41, 32, 123, 32, 102, 59, 32, 102, 32, 125, 59>>),
          (* f() *)
          TextLine(<<102, 40, 41>>) >>,
       << (* let f = fn(g, x) { if (x) { x } else { g(g, true) } }; *)
          TextLine(<<108, 101, 116, 32, 102, 32, 61, 32, 102, 110, 40, 103, 44, 32, 120, 41, 32, 123, 32, 105, 102, 32, 40, 120, 41, 32, 123, 32, 120, 32, 125, 32, 101, 108, 115, 101, 32, 123, 32, 103, 40, 103, 44, 32, 116, 114, 117, 101, 41, 32, 125, 32, 125, 59>>),
          (* f(f, false) *)
          TextLine(<<102, 40, 102, 44, 32, 102, 97, 108, 115, 101, 41>>) >>,
       << (* if (true) { let a = 1; } *)
          TextLine(<<105, 102, 32, 40, 116, 114, 117, 101, 41, 32, 123, 32, 108, 101, 116, 32, 97, 32, 61, 32, 49, 59, 32, 125>>) >>,
       << (* if (1 > 2) { 1 } *)
          TextLine(<<105, 102, 32, 40, 49, 32, 62, 32, 50, 41, 32, 123, 32, 49, 32, 125>>),
          (* if (1 < 2) { if (true) { 3 } } else { 4 } *)
          TextLine(<<105, 102, 32, 40, 49, 32, 60, 32, 50, 41, 32, 123, 32, 105, 102, 32, 40, 116, 114, 117, 101, 41, 32, 123, 32, 51, 32, 125, 32, 125, 32, 101, 108, 115, 101, 32, 123, 32, 52, 32, 125>>) >>,
       << (* let f = fn(x) { let a = x; }; *)
          TextLine(<<108, 101, 116, 32, 102, 32, 61, 32, 102, 110, 40, 120, 41, 32, 123, 32, 108, 101, 116, 32, 97, 32, 61, 32, 120, 59, 32, 125, 59>>),
          (* f(true) *)
          TextLine(<<102, 40, 116, 114, 117, 101, 41>>) >>,
       << (* let f = fn(x) { if (x) { return x; } }; *)
          TextLine(<<108, 101, 116, 32, 102, 32, 61, 32, 102, 110, 40, 120, 41, 32, 123, 32, 105, 102, 32, 40, 120, 41, 32, 123, 32, 114, 101, 116, 117, 114, 110, 32, 120, 59, 32, 125, 32, 125, 59>>),
          (* f(true) *)
          TextLine(<<102, 40, 116, 114, 117, 101, 41>>) >>,
       << (* fn(a, b) { fn(c) { fn() { b; a; c } } } *)
          TextLine(<<102, 110, 40, 97, 44, 32, 98, 41, 32, 123, 32, 102, 110, 40, 99, 41, 32, 123, 32, 102, 110, 40, 41, 32, 123, 32, 98, 59, 32, 97, 59, 32, 99, 32, 125, 32, 125, 32, 125>>) >>,
       << (* let f = fn() { let a = f; f() }; *)
          TextLine(<<108, 101, 116, 32, 102, 32, 61, 32, 102, 110, 40, 41, 32, 123, 32, 108, 101, 116, 32, 97, 32, 61, 32, 102, 59, 32, 102, 40, 41, 32, 125, 59>>),
          (* f() *)
          TextLine(<<102, 40, 41>>) >>,
       << (* return 5; *)
          TextLine(<<114, 101, 116, 117, 114, 110, 32, 53, 59>>) >>,
       << (* let f = fn() { let b = b; b }; *)
          TextLine(<<108, 101, 116, 32, 102, 32, 61, 32, 102, 110, 40, 41, 32, 123, 32, 108, 101, 116, 32, 98, 32, 61, 32, 98, 59, 32, 98, 32, 125, 59>>),
          (* f() *)
          TextLine(<<102, 40, 41>>) >>,
       << (* let f = fn() { f; f; true }; *)
          TextLine(<<108, 101, 116, 32, 102, 32, 61, 32, 102, 110, 40, 41, 32, 123, 32, 102, 59, 32, 102, 59, 32, 116, 114, 117, 101, 32, 125, 59>>),
          (* false == f() *)
          TextLine(<<102, 97, 108, 115, 101, 32, 61, 61, 32, 102, 40, 41>>) >> >>

Corpus ==
    BasicSessions \o IndexSessions \o HashSessions \o FunctionSessions \o GlobalSessions
        \o TextSessions

(* the Pairs of the hash literals of a program *)
RECURSIVE HashLiterals(_)
RECURSIVE HashLiteralsIn(_)
HashLiterals(node) ==
    CASE node.type \in {"Program", "BlockStatement"} -> HashLiteralsIn(node.Statements)
      [] node.type = "LetStatement" -> HashLiterals(node.Value)
      [] node.type = "ReturnStatement" -> HashLiterals(node.ReturnValue)
      [] node.type = "ExpressionStatement" -> HashLiterals(node.Expression)
      [] node.type = "PrefixExpression" -> HashLiterals(node.Right)
      [] node.type = "InfixExpression" -> HashLiterals(node.Left) \cup HashLiterals(node.Right)
      [] node.type = "IfExpression" ->
            HashLiterals(node.Condition) \cup HashLiterals(node.Consequence)
                \cup HashLiterals(node.Alternative)
      [] node.type = "FunctionLiteral" -> HashLiterals(node.Body)
      [] node.type = "CallExpression" ->
            HashLiterals(node.Function) \cup HashLiteralsIn(node.Arguments)
      [] node.type = "ArrayLiteral" -> HashLiteralsIn(node.Elements)
      [] node.type = "IndexExpression" -> HashLiterals(node.Left) \cup HashLiterals(node.Index)
      [] node.type = "HashLiteral" ->
            {node.Pairs} \cup UNION {HashLiterals(node.Pairs[i].key) \cup
                                     HashLiterals(node.Pairs[i].value) : i \in 1..Len(node.Pairs)}
      [] OTHER -> {}
HashLiteralsIn(nodes) == UNION {HashLiterals(nodes[i]) : i \in 1..Len(nodes)}

Orderings(n) == {q \in [1..n -> 1..n] : \A i, j \in 1..n : q[i] = q[j] => i = j}

(* the orders in which the iterations of a program's hash literals may run *)
RangeOrders(node) ==
    LET lits == HashLiterals(node)
    IN {o \in [lits -> UNION {Orderings(Len(l)) : l \in lits}] :
          \A l \in lits : Len(o[l]) = Len(l)}


(***************************************************************************)
(* The driver (repl.Start) and the steps of VM.Run.                        *)
(*   pc: "parse" (a line was read), "compile" (it parsed without errors),  *)
(*   "compiled", "run" (inside Run's                                       *)
(*   loop), "ran" (Run returned nil), "failed" (Compile or Run returned an *)
(*   error), "next" (back at the prompt), "exit", "crashed" (a panic).     *)
(*   last: the instruction Run executed last, with sp and the stack slots  *)
(*   below sp from before it.  out: what the driver has written.           *)
(***************************************************************************)
(* line := scanner.Text(); p := parser.New(lexer.New(line)); p.ParseProgram(). *)
(* A line the programs above give as its tree parsed without errors.           *)
(* program.node is the tree ParseProgram returned for the line last read.      *)
ScannedLine == Corpus[program.id][program.line]
ParsedLine ==
    IF ScannedLine.type = "Text" THEN ParseProgram(NewParser(NewLexer(ScannedLine.input)))
    ELSE Parsed(NoParser.p, ScannedLine)
TheLine == program.node

NoStatus == [kind |-> "", msg |-> ""]
NoLast == [op |-> -1, fn |-> MainFn, ip |-> -1, sp |-> 0, operands |-> <<>>, args |-> <<>>]
NoCodec == [op |-> -1, operands |-> <<>>, ins |-> <<>>, read |-> NoStatus]
NoKeys == [a |-> Nil, b |-> Nil, ka |-> Nil, kb |-> Nil]

NoCall == [op |-> "", lvl |-> 0, name |-> <<>>, symbol |-> NoSymbol, ok |-> FALSE,
           before |-> <<>>]
NoSymtab == [tables |-> <<>>, defined |-> <<>>, calls |-> 0, call |-> NoCall]

Init ==
    /\ pc = "parse"
    /\ program \in {[id |-> i, line |-> 1, node |-> NilNode] : i \in 1..Len(Corpus)}
    /\ comp = NewWithState(BuiltinSymbolTable[1], <<>>, <<>>)
    /\ comp2 = [Instructions |-> <<>>, Constants |-> <<>>]
    /\ vm = NewWithGlobalStore([Instructions |-> <<>>, Constants |-> <<>>], <<>>)
    /\ status = NoStatus
    /\ last = NoLast
    /\ out = <<>>
    /\ codec = NoCodec
    /\ hk = NoKeys
    /\ lex = NoLexer
    /\ prs = NoParser
    /\ symtab = NoSymtab

(* program := p.ParseProgram(); with parser errors, printParserErrors and *)
(* continue                                                              *)
ParseLine ==
    LET AfterParseProgram(r) ==
            /\ program' = [program EXCEPT !.node = r.node]
            /\ IF r.p.errors # <<>>
               THEN /\ out' = Append(out, [kind |-> "parser errors", msg |-> r.p.errors])
                    /\ pc' = "next"
               ELSE /\ out' = out
                    /\ pc' = "compile"
    IN /\ pc = "parse"
       /\ AfterParseProgram(ParsedLine)
       /\ UNCHANGED <<comp, comp2, vm, status, last, codec, hk, lex, prs, symtab>>

(* comp := NewWithState(symbolTable, constants); err := comp.Compile(program). *)
(* comp2 is the bytecode of compiling the same line once more.                 *)
CompileLine ==
    /\ pc = "compile"
    /\ \E orders \in RangeOrders(TheLine), orders2 \in RangeOrders(TheLine) :
          LET c == Compile(NewWithState(comp.tables[1], vm.constants, orders), TheLine)
              c2 == Compile(NewWithState(comp.tables[1], vm.constants, orders2), TheLine)
          IN /\ comp' = c
             /\ comp2' = Bytecode(c2)
             /\ pc' = IF c.err # "" THEN "failed" ELSE "compiled"
             /\ status' = IF c.err # "" THEN [kind |-> "compile error", msg |-> c.err]
                          ELSE NoStatus
    /\ UNCHANGED <<program, vm, last, out, codec, hk, lex, prs, symtab>>

(* code := comp.Bytecode(); constants = code.Constants;                    *)
(* machine := vm.NewWithGlobalStore(code, globals)                         *)
NewMachine ==
    /\ pc = "compiled"
    /\ vm' = [NewWithGlobalStore(Bytecode(comp), vm.globals) EXCEPT !.allocs = vm.allocs]
    /\ pc' = "run"
    /\ last' = NoLast
    /\ UNCHANGED <<program, comp, comp2, status, out, codec, hk, lex, prs, symtab>>

(* the VM after `vm.currentFrame().ip++`, and what Run fetches *)
Fetched == AddIp(vm, 1)
FetchIp == currentFrame(Fetched).ip
FetchIns == Instructions(Fetched, currentFrame(Fetched))
FetchOp == FetchIns[FetchIp + 1]

Fetches(ops) == pc = "run" /\ RunCondition(vm) /\ FetchOp \in ops

(* the operand the case of op decodes *)
CaseOperands(op, ins, ip) ==
    IF op \in {OpConstant, OpJump, OpJumpNotTruthy, OpSetGlobal, OpGetGlobal, OpArray, OpHash}
    THEN IF Has2(ins, ip) THEN <<Uint16At(ins, ip)>> ELSE <<>>
    ELSE IF op \in {OpSetLocal, OpGetLocal, OpGetBuiltin, OpCall}
    THEN IF Has1(ins, ip) THEN <<Uint8At(ins, ip)>> ELSE <<>>
    ELSE <<>>

(* how many stack slots below sp the case of op reads *)
CaseReads(op, operands) ==
    CASE op \in {OpAdd, OpSub, OpMul, OpDiv, OpGreaterThan, OpEqual, OpNotEqual, OpIndex} -> 2
      [] op \in {OpMinus, OpBang, OpPop, OpJumpNotTruthy, OpSetGlobal, OpSetLocal,
                 OpReturnValue} -> 1
      [] op \in {OpArray, OpHash} /\ operands # <<>> -> operands[1]
      [] op = OpCall /\ operands # <<>> -> operands[1] + 1
      [] OTHER -> 0

(* one iteration of Run's loop whose case has outcome r *)
RunStep(r) ==
    LET operands == CaseOperands(FetchOp, FetchIns, FetchIp)
        n == CaseReads(FetchOp, operands)
        reads == IF n > vm.sp THEN vm.sp ELSE n
    IN /\ vm' = r.v
       /\ status' = IF r.kind = "ok" THEN status ELSE [kind |-> r.kind, msg |-> r.msg]
       /\ pc' = CASE r.kind = "ok" -> "run"
                  [] r.kind = "error" -> "failed"
                  [] OTHER -> "crashed"
       /\ last' = [op |-> FetchOp, fn |-> currentFrame(vm).fn, ip |-> FetchIp, sp |-> vm.sp,
                   operands |-> operands, args |-> StackSlice(vm, vm.sp - reads, vm.sp)]
       /\ UNCHANGED <<program, comp, comp2, out, codec, hk, lex, prs, symtab>>

ExecConstant == Fetches({OpConstant}) /\ RunStep(caseOpConstant(Fetched, FetchIns, FetchIp))
ExecBinary ==
    Fetches({OpAdd, OpSub, OpMul, OpDiv}) /\ RunStep(executeBinaryOperation(Fetched, FetchOp))
ExecComparison ==
    Fetches({OpGreaterThan, OpEqual, OpNotEqual}) /\ RunStep(executeComparison(Fetched, FetchOp))
ExecMinus == Fetches({OpMinus}) /\ RunStep(executeMinusOperator(Fetched))
ExecBang == Fetches({OpBang}) /\ RunStep(executeBangOperator(Fetched))
ExecTrue == Fetches({OpTrue}) /\ RunStep(push(Fetched, True))
ExecFalse == Fetches({OpFalse}) /\ RunStep(push(Fetched, False))
ExecJump == Fetches({OpJump}) /\ RunStep(caseOpJump(Fetched, FetchIns, FetchIp))
ExecJumpNotTruthy ==
    Fetches({OpJumpNotTruthy}) /\ RunStep(caseOpJumpNotTruthy(Fetched, FetchIns, FetchIp))
ExecSetGlobal == Fetches({OpSetGlobal}) /\ RunStep(caseOpSetGlobal(Fetched, FetchIns, FetchIp))
ExecGetGlobal == Fetches({OpGetGlobal}) /\ RunStep(caseOpGetGlobal(Fetched, FetchIns, FetchIp))
ExecSetLocal == Fetches({OpSetLocal}) /\ RunStep(caseOpSetLocal(Fetched, FetchIns, FetchIp))
ExecGetLocal == Fetches({OpGetLocal}) /\ RunStep(caseOpGetLocal(Fetched, FetchIns, FetchIp))
ExecGetBuiltin == Fetches({OpGetBuiltin}) /\ RunStep(caseOpGetBuiltin(Fetched, FetchIns, FetchIp))
ExecArray == Fetches({OpArray}) /\ RunStep(caseOpArray(Fetched, FetchIns, FetchIp))
ExecHash == Fetches({OpHash}) /\ RunStep(caseOpHash(Fetched, FetchIns, FetchIp))
ExecIndex == Fetches({OpIndex}) /\ RunStep(caseOpIndex(Fetched))
ExecCall == Fetches({OpCall}) /\ RunStep(caseOpCall(Fetched, FetchIns, FetchIp))
ExecReturnValue == Fetches({OpReturnValue}) /\ RunStep(caseOpReturnValue(Fetched))
ExecReturn == Fetches({OpReturn}) /\ RunStep(caseOpReturn(Fetched))
ExecNull == Fetches({OpNull}) /\ RunStep(push(Fetched, Null))
ExecPop == Fetches({OpPop}) /\ RunStep(caseOpPop(Fetched))

(* a byte the switch has no case for: the iteration only advanced ip *)
ExecNoCase == Fetches((0..255) \ CaseOps) /\ RunStep(Ok(Fetched))

(* the loop condition fails: Run returns nil *)
RunReturns ==
    /\ pc = "run"
    /\ ~RunCondition(vm)
    /\ pc' = "ran"
    /\ status' = [kind |-> "ok", msg |-> ""]
    /\ UNCHANGED <<program, comp, comp2, vm, last, out, codec, hk, lex, prs, symtab>>

(* lastPopped := machine.LastPoppedStackElem(); io.WriteString(out, lastPopped.Inspect()) *)
PrintLastPopped ==
    /\ pc = "ran"
    /\ IF ~InStack(vm.sp)
       THEN /\ pc' = "crashed"
            /\ status' = [kind |-> "panic", msg |-> "index out of range"]
            /\ out' = out
       ELSE IF SlotAt(vm.stack, vm.sp).type = "nil"
       THEN /\ pc' = "crashed"
            /\ status' = [kind |-> "panic", msg |-> "nil pointer dereference"]
            /\ out' = out
       ELSE /\ pc' = "next"
            /\ status' = status
            /\ out' = Append(out, [kind |-> "value", val |-> SlotAt(vm.stack, vm.sp)])
    /\ UNCHANGED <<program, comp, comp2, vm, last, codec, hk, lex, prs, symtab>>

(* "Woops! ..." is written and the loop continues *)
PrintError ==
    /\ pc = "failed"
    /\ out' = Append(out, [kind |-> status.kind, msg |-> status.msg])
    /\ pc' = "next"
    /\ UNCHANGED <<program, comp, comp2, vm, status, last, codec, hk, lex, prs, symtab>>

(* scanner.Scan(): the next line, or the end of the input *)
ReadLine ==
    /\ pc = "next"
    /\ IF program.line < Len(Corpus[program.id])
       THEN program' = [program EXCEPT !.line = @ + 1] /\ pc' = "parse"
       ELSE program' = program /\ pc' = "exit"
    /\ UNCHANGED <<comp, comp2, vm, status, last, out, codec, hk, lex, prs, symtab>>

Next ==
    \/ ParseLine \/ CompileLine \/ NewMachine
    \/ ExecConstant \/ ExecBinary \/ ExecComparison \/ ExecMinus \/ ExecBang
    \/ ExecTrue \/ ExecFalse \/ ExecJump \/ ExecJumpNotTruthy
    \/ ExecSetGlobal \/ ExecGetGlobal \/ ExecSetLocal \/ ExecGetLocal \/ ExecGetBuiltin
    \/ ExecArray \/ ExecHash \/ ExecIndex \/ ExecCall \/ ExecReturnValue \/ ExecReturn
    \/ ExecNull \/ ExecPop \/ ExecNoCase
    \/ RunReturns \/ PrintLastPopped \/ PrintError \/ ReadLine

Spec == Init /\ [][Next]_vars


(***************************************************************************)
(* Encoding and decoding one instruction (package code).                   *)
(***************************************************************************)
Samples16 == {0, 1, 255, 256, 257, 4660, 65534, 65535}
Samples8 == {0, 1, 127, 128, 255}

(* the operand vectors that match the operand widths of op *)
OperandVectors(op) ==
    LET widths == OperandWidths(op)
    IN {xs \in [1..Len(widths) -> Samples16 \cup Samples8] :
          \A i \in 1..Len(widths) : xs[i] \in (IF widths[i] = 2 THEN Samples16 ELSE Samples8)}

InitCode ==
    /\ pc = "make"
    /\ \E op \in Opcodes : \E xs \in OperandVectors(op) :
          codec = [op |-> op, operands |-> xs, ins |-> <<>>, read |-> NoStatus]
    /\ program = [id |-> 1, line |-> 1, node |-> NilNode]
    /\ comp = NewWithState(BuiltinSymbolTable[1], <<>>, <<>>)
    /\ comp2 = [Instructions |-> <<>>, Constants |-> <<>>]
    /\ vm = NewWithGlobalStore([Instructions |-> <<>>, Constants |-> <<>>], <<>>)
    /\ status = NoStatus
    /\ last = NoLast
    /\ out = <<>>
    /\ hk = NoKeys
    /\ lex = NoLexer
    /\ prs = NoParser
    /\ symtab = NoSymtab

(* instruction := Make(op, operands...) *)
MakeInstruction ==
    /\ pc = "make"
    /\ codec' = [codec EXCEPT !.ins = Make(codec.op, codec.operands)]
    /\ pc' = "made"
    /\ UNCHANGED <<program, comp, comp2, vm, status, last, out, hk, lex, prs, symtab>>

(* def, _ := Lookup(op); operandsRead, n := ReadOperands(def, instruction[1:]) *)
ReadInstruction ==
    /\ pc = "made"
    /\ codec' = [codec EXCEPT !.read = ReadOperands(OperandWidths(codec.op), Tail(codec.ins))]
    /\ pc' = "read"
    /\ UNCHANGED <<program, comp, comp2, vm, status, last, out, hk, lex, prs, symtab>>

NextCode == MakeInstruction \/ ReadInstruction

SpecCode == InitCode /\ [][NextCode]_vars

(***************************************************************************)
(* Disassembling a byte sequence (Instructions.String).  codec is the      *)
(* record ins (the bytes), i (the read position) and out (the lines        *)
(* written to the buffer so far).                                          *)
(***************************************************************************)
MaxBytes == 3
MaxLines == 3

(* OpConstant, OpAdd, OpCall, OpClosure, OpCurrentClosure and two bytes    *)
(* that are no key of the definitions map                                  *)
SampleBytes == {OpConstant, OpAdd, OpCall, OpClosure, OpCurrentClosure, 30, 255}

ByteSequences == UNION {[1..n -> SampleBytes] : n \in 0..MaxBytes}

(* def, err := Lookup(op): ok is err == nil *)
Lookup(op) == [ok |-> op \in Opcodes, op |-> op, widths |-> OperandWidths(op)]

(* ins[i+1:] *)
BytesAfter(ins, i) == SubSeq(ins, i + 2, Len(ins))

InitString ==
    /\ pc = "string"
    /\ \E ins \in ByteSequences : codec = [ins |-> ins, i |-> 0, out |-> <<>>]
    /\ program = [id |-> 1, line |-> 1, node |-> NilNode]
    /\ comp = NewWithState(BuiltinSymbolTable[1], <<>>, <<>>)
    /\ comp2 = [Instructions |-> <<>>, Constants |-> <<>>]
    /\ vm = NewWithGlobalStore([Instructions |-> <<>>, Constants |-> <<>>], <<>>)
    /\ status = NoStatus
    /\ last = NoLast
    /\ out = <<>>
    /\ hk = NoKeys
    /\ lex = NoLexer
    /\ prs = NoParser
    /\ symtab = NoSymtab

(* the loop's condition i < len(ins) *)
StringLoops == pc = "string" /\ codec.i < Len(codec.ins)

(* the byte at the read position *)
StringOp == codec.ins[codec.i + 1]

(* ReadOperands indexes past the end of ins[i+1:] *)
OperandsCutShort ==
    Len(BytesAfter(codec.ins, codec.i)) < SumSeq(Lookup(StringOp).widths)

(* err != nil: the error line is written and the loop continues, i as it   *)
(* was.  The buffer grows without end; the model stops at MaxLines lines   *)
StringLookupFails ==
    /\ StringLoops
    /\ ~Lookup(StringOp).ok
    /\ Len(codec.out) < MaxLines
    /\ codec' = [codec EXCEPT !.out = Append(@, [pos |-> -1, op |-> StringOp, operands |-> <<>>])]
    /\ UNCHANGED <<pc, program, comp, comp2, vm, status, last, out, hk, lex, prs, symtab>>

(* the instruction is decoded, its line written, i += 1 + read *)
StringDecodes ==
    /\ StringLoops
    /\ Lookup(StringOp).ok
    /\ ~OperandsCutShort
    /\ codec' = [codec EXCEPT
          !.out = Append(@, [pos |-> codec.i, op |-> StringOp,
                             operands |-> ReadOperands(Lookup(StringOp).widths,
                                                       BytesAfter(codec.ins, codec.i)).operands]),
          !.i = @ + 1 + ReadOperands(Lookup(StringOp).widths,
                                     BytesAfter(codec.ins, codec.i)).read]
    /\ UNCHANGED <<pc, program, comp, comp2, vm, status, last, out, hk, lex, prs, symtab>>

(* ReadOperands panics: index out of range *)
StringPanics ==
    /\ StringLoops
    /\ Lookup(StringOp).ok
    /\ OperandsCutShort
    /\ pc' = "panicked"
    /\ UNCHANGED <<program, comp, comp2, vm, status, last, out, codec, hk, lex, prs, symtab>>

(* return out.String() *)
StringReturns ==
    /\ pc = "string"
    /\ codec.i >= Len(codec.ins)
    /\ pc' = "returned"
    /\ UNCHANGED <<program, comp, comp2, vm, status, last, out, codec, hk, lex, prs, symtab>>

NextString == StringLookupFails \/ StringDecodes \/ StringPanics \/ StringReturns

SpecString == InitString /\ [][NextString]_vars

(***************************************************************************)
(* Hash keys of two objects (package object, the HashKey methods).        *)
(***************************************************************************)
SampleIntegers == {-2147483647, -2, -1, 0, 1, 2, 255, 256, 2147483647}
SampleStrings == {<<>>, <<97>>, <<98>>, <<97, 98>>, <<98, 97>>, <<49>>}

(* the hashable objects: hash1 := &Integer{..}, &Boolean{..}, &String{..} *)
SampleHashables ==
    {Integer(n) : n \in SampleIntegers} \cup {True, False}
        \cup {StringObj(s, a) : s \in SampleStrings, a \in {-1, -2}}

InitKeys ==
    /\ pc = "objects"
    /\ \E a \in SampleHashables, b \in SampleHashables : hk = [NoKeys EXCEPT !.a = a, !.b = b]
    /\ program = [id |-> 1, line |-> 1, node |-> NilNode]
    /\ comp = NewWithState(BuiltinSymbolTable[1], <<>>, <<>>)
    /\ comp2 = [Instructions |-> <<>>, Constants |-> <<>>]
    /\ vm = NewWithGlobalStore([Instructions |-> <<>>, Constants |-> <<>>], <<>>)
    /\ status = NoStatus
    /\ last = NoLast
    /\ out = <<>>
    /\ codec = NoCodec
    /\ lex = NoLexer
    /\ prs = NoParser
    /\ symtab = NoSymtab

(* hash1.HashKey(), hash2.HashKey() *)
HashKeys ==
    /\ pc = "objects"
    /\ hk' = [hk EXCEPT !.ka = HashKey(hk.a), !.kb = HashKey(hk.b)]
    /\ pc' = "hashed"
    /\ UNCHANGED <<program, comp, comp2, vm, status, last, out, codec, lex, prs, symtab>>

NextKeys == HashKeys

SpecKeys == InitKeys /\ [][NextKeys]_vars


(***************************************************************************)
(* A lexer that is asked for token after token (package lexer).            *)
(***************************************************************************)
MaxInputLen == 3
MaxExtraCalls == 3

(* space, NUL, and one byte of each kind NextToken tells apart *)
LexAlphabet == {0, 32, 33, 34, 43, 49, 61, 64, 97}

RECURSIVE Inputs(_)
Inputs(n) ==
    IF n = 0 THEN {<<>>}
    ELSE LET shorter == Inputs(n - 1)
         IN shorter \cup {Append(t, c) : t \in {u \in shorter : Len(u) = n - 1}, c \in LexAlphabet}

InitLexer ==
    /\ pc = "lex"
    /\ \E input \in Inputs(MaxInputLen) : lex = [l |-> NewLexer(input), toks |-> <<>>]
    /\ program = [id |-> 1, line |-> 1, node |-> NilNode]
    /\ comp = NewWithState(BuiltinSymbolTable[1], <<>>, <<>>)
    /\ comp2 = [Instructions |-> <<>>, Constants |-> <<>>]
    /\ vm = NewWithGlobalStore([Instructions |-> <<>>, Constants |-> <<>>], <<>>)
    /\ status = NoStatus
    /\ last = NoLast
    /\ out = <<>>
    /\ codec = NoCodec
    /\ hk = NoKeys
    /\ prs = NoParser
    /\ symtab = NoSymtab

(* tok := l.NextToken() *)
CallNextToken ==
    /\ pc = "lex"
    /\ Len(lex.toks) < Len(lex.l.input) + MaxExtraCalls
    /\ LET r == NextToken(lex.l)
       IN lex' = [l |-> r.l, toks |-> Append(lex.toks, r.tok)]
    /\ UNCHANGED <<pc, program, comp, comp2, vm, status, last, out, codec, hk, prs, symtab>>

NextLexer == CallNextToken

SpecLexer == InitLexer /\ [][NextLexer]_vars

(***************************************************************************)
(* A parser run over one input (package parser).                           *)
(***************************************************************************)
MaxFragments == 3

(* the words let a = 1 + ( ) if { } fn ; *)
Fragments ==
    {<<108, 101, 116>>, <<97>>, <<61>>, <<49>>,
     <<43>>, <<40>>, <<41>>, <<105, 102>>,
     <<123>>, <<125>>, <<102, 110>>, <<59>>}

(* the texts of at most n words, a space between two words *)
RECURSIVE FragmentTexts(_)
FragmentTexts(n) ==
    IF n = 0 THEN {<<>>}
    ELSE FragmentTexts(n - 1) \cup Fragments
            \cup {t \o <<32>> \o f : t \in FragmentTexts(n - 1) \ {<<>>}, f \in Fragments}

BinaryOperators == {"+", "-", "*", "/", "<", ">", "==", "!="}
PrefixOperators == {"-", "!"}

(* 1 op1 2 op2 3 *)
OperatorText2(op1, op2) ==
    <<49, 32>> \o OperatorText(op1) \o <<32, 50, 32>> \o OperatorText(op2) \o <<32, 51>>
(* pre 1 op 2 *)
PrefixText(pre, op) == OperatorText(pre) \o <<49, 32>> \o OperatorText(op) \o <<32, 50>>

OperatorTexts ==
    {OperatorText2(op1, op2) : op1 \in BinaryOperators, op2 \in BinaryOperators}
        \cup {PrefixText(pre, op) : pre \in PrefixOperators, op \in BinaryOperators}

OtherTexts ==
    {(* let 5 = 3; *)
     <<108, 101, 116, 32, 53, 32, 61, 32, 51, 59>>,
     (* let a 1 *)
     <<108, 101, 116, 32, 97, 32, 49>>,
     (* let a = ; *)
     <<108, 101, 116, 32, 97, 32, 61, 32, 59>>,
     (* if (1) { 2 } else 3 *)
     <<105, 102, 32, 40, 49, 41, 32, 123, 32, 50, 32, 125, 32, 101, 108, 115, 101, 32, 51>>,
     (* if (a) { 1 } else { 2 } *)
     <<105, 102, 32, 40, 97, 41, 32, 123, 32, 49, 32, 125, 32, 101, 108, 115, 101, 32, 123, 32, 50, 32, 125>>,
     (* if + 1 *)
     <<105, 102, 32, 43, 32, 49>>,
     (* fn(a, b) { a }(1, 2) *)
     <<102, 110, 40, 97, 44, 32, 98, 41, 32, 123, 32, 97, 32, 125, 40, 49, 44, 32, 50, 41>>,
     (* fn(a { 1 } *)
     <<102, 110, 40, 97, 32, 123, 32, 49, 32, 125>>,
     (* fn( *)
     <<102, 110, 40>>,
     (* (1 2 *)
     <<40, 49, 32, 50>>,
     (* 08 *)
     <<48, 56>>,
     (* - *)
     <<45>>,
     (* return 1; 2 *)
     <<114, 101, 116, 117, 114, 110, 32, 49, 59, 32, 50>>,
     (* let f = fn() { }; f() *)
     <<108, 101, 116, 32, 102, 32, 61, 32, 102, 110, 40, 41, 32, 123, 32, 125, 59, 32, 102, 40, 41>>,
     (* a(1, 2 *)
     <<97, 40, 49, 44, 32, 50>>,
     (* { 1 } *)
     <<123, 32, 49, 32, 125>>,
     (* [1] *)
     <<91, 49, 93>>,
     (* 1 \0 2 *)
     <<49, 32, 0, 32, 50>>,
     (* "s" + "t" *)
     <<34, 115, 34, 32, 43, 32, 34, 116, 34>>,
     (* !true == false *)
     <<33, 116, 114, 117, 101, 32, 61, 61, 32, 102, 97, 108, 115, 101>>,
     (* fn() { 1 *)
     <<102, 110, 40, 41, 32, 123, 32, 49>>,
     (* if (a) { 1 *)
     <<105, 102, 32, 40, 97, 41, 32, 123, 32, 49>>}

InitParser ==
    /\ pc = "parse"
    /\ \E input \in FragmentTexts(MaxFragments) \cup OperatorTexts \cup OtherTexts :
          prs = [p |-> NewParser(NewLexer(input)), stmts |-> <<>>]
    /\ program = [id |-> 1, line |-> 1, node |-> NilNode]
    /\ comp = NewWithState(BuiltinSymbolTable[1], <<>>, <<>>)
    /\ comp2 = [Instructions |-> <<>>, Constants |-> <<>>]
    /\ vm = NewWithGlobalStore([Instructions |-> <<>>, Constants |-> <<>>], <<>>)
    /\ status = NoStatus
    /\ last = NoLast
    /\ out = <<>>
    /\ codec = NoCodec
    /\ hk = NoKeys
    /\ lex = NoLexer
    /\ symtab = NoSymtab

(* stmt := p.parseStatement(); append; p.nextToken() *)
ParseOneStatement ==
    /\ pc = "parse"
    /\ ~curTokenIs(prs.p, "EOF")
    /\ prs' = ParseProgramStep(prs.p, prs.stmts)
    /\ UNCHANGED <<pc, program, comp, comp2, vm, status, last, out, codec, hk, lex, symtab>>

(* the loop ends: return program *)
ParseProgramReturns ==
    /\ pc = "parse"
    /\ curTokenIs(prs.p, "EOF")
    /\ pc' = "parsed"
    /\ UNCHANGED <<program, comp, comp2, vm, status, last, out, codec, hk, lex, prs, symtab>>

NextParser == ParseOneStatement \/ ParseProgramReturns

SpecParser == InitParser /\ [][NextParser]_vars

(* ENABLED <<ParseOneStatement>>_vars, written as a state predicate: the    *)
(* loop's condition holds and the iteration changes the parser             *)
ParseOneStatementEnabled ==
    /\ pc = "parse"
    /\ ~curTokenIs(prs.p, "EOF")
    /\ ParseProgramStep(prs.p, prs.stmts) # prs

(* ParseProgram is one call: once entered, its loop keeps running until    *)
(* its condition fails, nothing else takes the parser away from it.  Weak  *)
(* fairness of both actions, that of ParseOneStatement with its            *)
(* enabledness written out                                                 *)
SpecParserFair ==
    /\ SpecParser
    /\ WF_vars(ParseProgramReturns)
    /\ (<>[]ParseOneStatementEnabled => []<><<ParseOneStatement>>_vars)

(***************************************************************************)
(* Calls on a chain of symbol tables (package compiler, symbol_table.go).  *)
(* symtab.tables[1] is the table without an outer table and each further   *)
(* table is enclosed by the one before it; symtab.defined[lvl] lists what   *)
(* the Define calls on table lvl returned, and symtab.call is the call     *)
(* made last with the tables as they were before it.                       *)
(***************************************************************************)
MaxTables == 4
MaxSymbolCalls == 4
SymbolNames == {nmA, nmB}

InitSymbols ==
    /\ pc = "symbols"
    /\ symtab = [tables |-> <<NewSymbolTable>>, defined |-> << <<>> >>, calls |-> 0,
                 call |-> NoCall]
    /\ program = [id |-> 1, line |-> 1, node |-> NilNode]
    /\ comp = NewWithState(BuiltinSymbolTable[1], <<>>, <<>>)
    /\ comp2 = [Instructions |-> <<>>, Constants |-> <<>>]
    /\ vm = NewWithGlobalStore([Instructions |-> <<>>, Constants |-> <<>>], <<>>)
    /\ status = NoStatus
    /\ last = NoLast
    /\ out = <<>>
    /\ codec = NoCodec
    /\ hk = NoKeys
    /\ lex = NoLexer
    /\ prs = NoParser

SymbolsFrame == UNCHANGED <<pc, program, comp, comp2, vm, status, last, out, codec, hk, lex, prs>>

Called(op, lvl, name, r, ok) ==
    [op |-> op, lvl |-> lvl, name |-> name, symbol |-> r.symbol, ok |-> ok,
     before |-> symtab.tables]

(* NewEnclosedSymbolTable(the innermost table) *)
CallNewEnclosedSymbolTable ==
    /\ pc = "symbols"
    /\ Len(symtab.tables) < MaxTables
    /\ symtab' = [symtab EXCEPT !.tables = NewEnclosedSymbolTable(@),
                                !.defined = Append(@, <<>>),
                                !.call = [NoCall EXCEPT !.op = "NewEnclosedSymbolTable"]]
    /\ SymbolsFrame

DefineCalled(lvl, name, r) ==
    symtab' = [tables |-> r.tables,
               defined |-> [symtab.defined EXCEPT ![lvl] = Append(@, r.symbol)],
               calls |-> symtab.calls + 1,
               call |-> Called("Define", lvl, name, r, TRUE)]

CallDefine ==
    /\ pc = "symbols"
    /\ symtab.calls < MaxSymbolCalls
    /\ \E lvl \in 1..Len(symtab.tables), name \in SymbolNames :
          DefineCalled(lvl, name, Define(symtab.tables, lvl, name))
    /\ SymbolsFrame

OtherCalled(op, lvl, name, r, ok) ==
    symtab' = [symtab EXCEPT !.tables = r.tables, !.calls = @ + 1,
                             !.call = Called(op, lvl, name, r, ok)]

CallDefineBuiltin ==
    /\ pc = "symbols"
    /\ symtab.calls < MaxSymbolCalls
    /\ \E lvl \in 1..Len(symtab.tables), name \in SymbolNames :
          OtherCalled("DefineBuiltin", lvl, name,
                      DefineBuiltin(symtab.tables, lvl, 1, name), TRUE)
    /\ SymbolsFrame

CallDefineFunctionName ==
    /\ pc = "symbols"
    /\ symtab.calls < MaxSymbolCalls
    /\ \E lvl \in 1..Len(symtab.tables), name \in SymbolNames :
          OtherCalled("DefineFunctionName", lvl, name,
                      DefineFunctionName(symtab.tables, lvl, name), TRUE)
    /\ SymbolsFrame

Resolved(lvl, name, r) == OtherCalled("Resolve", lvl, name, r, r.ok)

CallResolve ==
    /\ pc = "symbols"
    /\ symtab.calls < MaxSymbolCalls
    /\ \E lvl \in 1..Len(symtab.tables), name \in SymbolNames :
          Resolved(lvl, name, Resolve(symtab.tables, lvl, name))
    /\ SymbolsFrame

NextSymbols ==
    \/ CallNewEnclosedSymbolTable \/ CallDefine \/ CallDefineBuiltin
    \/ CallDefineFunctionName \/ CallResolve

SpecSymbols == InitSymbols /\ [][NextSymbols]_vars

(***************************************************************************)
(* The compiler at the end of a long session or line (package compiler):   *)
(* the symbol table after n definitions of a, the constants pool after n   *)
(* integer literals, or the main scope after n bytes of the statements     *)
(* `true;` and `-true;`, and then one more statement compiled.  The n are  *)
(* the small counts and those within NearLimit of the 2^16 values a        *)
(* two-byte operand has.                                                   *)
(***************************************************************************)
OperandLimit == 65536
NearLimit == 6

OperandSizes ==
    (0..NearLimit) \cup ((OperandLimit - 2 * NearLimit)..(OperandLimit + NearLimit))

(* the global table after n statements `let a = ...;` *)
TableAfterLets(n) ==
    IF n = 0 THEN BuiltinSymbolTable[1]
    ELSE [BuiltinSymbolTable[1] EXCEPT
             !.store = StorePut(@, nmA, Symbol(nmA, GlobalScope, n - 1)),
             !.numDefinitions = n]

(* the constants pool after n integer literals *)
ConstantsAfterLiterals(n) == [k \in 1..n |-> Integer(0)]

(* the main scope after statements `true;` (and one `-true;` for an odd n) *)
(* of n bytes                                                              *)
ScopeAfterStatements(n) ==
    IF n < 2 THEN NewScope
    ELSE [instructions |->
              [k \in 1..n |->
                  IF n % 2 = 1 /\ k <= 3
                  THEN <<OpTrue, OpMinus, OpPop>>[k]
                  ELSE IF (n - k) % 2 = 1 THEN OpTrue ELSE OpPop],
          lastInstruction |-> EmittedInstruction(OpPop, n - 1),
          previousInstruction |->
              EmittedInstruction(IF n = 3 THEN OpMinus ELSE OpTrue, n - 2)]

LongSession(kind, n) ==
    CASE kind = "let" -> NewWithState(TableAfterLets(n), <<>>, <<>>)
      [] kind = "constant" ->
            NewWithState(BuiltinSymbolTable[1], ConstantsAfterLiterals(n), <<>>)
      [] kind = "if" ->
            [NewWithState(BuiltinSymbolTable[1], <<>>, <<>>) EXCEPT
                !.scopes = <<ScopeAfterStatements(n)>>]

(* let a = true;     5     if (true) { true } *)
NextStatement(kind) ==
    CASE kind = "let" -> LetStatement(nmA, Boolean(TRUE))
      [] kind = "constant" -> Expr(Num(5))
      [] kind = "if" -> Expr(IfExpression(Boolean(TRUE),
                                          BlockStatement(<<Expr(Boolean(TRUE))>>), NilNode))

InitOperands ==
    /\ pc = "operands"
    /\ \E kind \in {"let", "constant", "if"}, n \in OperandSizes :
          /\ comp = LongSession(kind, n)
          /\ program = [id |-> 1, line |-> 1, node |-> Program(<<NextStatement(kind)>>)]
    /\ comp2 = [Instructions |-> <<>>, Constants |-> <<>>]
    /\ vm = NewWithGlobalStore([Instructions |-> <<>>, Constants |-> <<>>], <<>>)
    /\ status = NoStatus
    /\ last = NoLast
    /\ out = <<>>
    /\ codec = NoCodec
    /\ hk = NoKeys
    /\ lex = NoLexer
    /\ prs = NoParser
    /\ symtab = NoSymtab

(* c.Compile of the statement *)
CompileStatement ==
    /\ pc = "operands"
    /\ comp' = Compile(comp, program.node)
    /\ pc' = "emitted"
    /\ UNCHANGED <<program, comp2, vm, status, last, out, codec, hk, lex, prs, symtab>>

NextOperands == CompileStatement

SpecOperands == InitOperands /\ [][NextOperands]_vars

(***************************************************************************)
(* Properties.                                                             *)
(***************************************************************************)
(* the instruction Run executed last was op, and the VM is as it left it *)
Executed(op) == last.op = op /\ pc \in {"run", "ran", "failed", "crashed"}

(* that instruction's case completed without error or panic *)
StepOk == status.kind \in {"", "ok"}

TopOfStack == SlotAt(vm.stack, vm.sp - 1)

(* C1: after Run returns without error, sp is 0: every top-level statement *)
(* left the stack at the height it found it.                               *)
C1_StackNeutral == pc = "ran" => vm.sp = 0

(* C2: in every reachable VM state 0 <= sp <= StackSize: no push and no    *)
(* reservation of locals by a call moves sp above the stack's capacity.    *)
C2_StackBound == vm.sp >= 0 /\ vm.sp <= StackSize

(* C3: a call made when MaxFrames frames are active makes Run return an    *)
(* error; it does not crash the VM.                                        *)
C3_FrameOverflowIsError ==
    (Executed(OpCall) /\ pc # "run" /\ vm.framesIndex = MaxFrames) => status.kind = "error"

(* the operand numFree of the Closure instruction executed last *)
LastNumFree == FnInstructions(vm, last.fn)[last.ip + 4]

(* C4: executing a Closure instruction pops its M captured values and      *)
(* pushes a closure; executing GetFree pushes one value.                   *)
C4_ClosureCapture ==
    /\ Executed(OpClosure) =>
          /\ StepOk
          /\ vm.sp = last.sp - LastNumFree + 1
          /\ TopOfStack.type = CLOSURE_OBJ
    /\ Executed(OpGetFree) => (StepOk /\ vm.sp = last.sp + 1)

(* C5: executing CurrentClosure pushes the function of the current frame.  *)
C5_CurrentClosure ==
    Executed(OpCurrentClosure) =>
        /\ StepOk
        /\ vm.sp = last.sp + 1
        /\ TopOfStack = FnRef(last.fn)

(* the operands of the Index instruction executed last *)
LastLeft == last.args[1]
LastIndex == last.args[2]
IndexedArray ==
    /\ Executed(OpIndex) /\ Len(last.args) = 2
    /\ LastLeft.type = ARRAY_OBJ /\ LastIndex.type = INTEGER_OBJ

(* C6: Index on an array with an integer index i pushes Null when i < 0 or *)
(* i >= length and element i otherwise; it never produces an error.        *)
C6_ArrayIndex ==
    IndexedArray =>
        /\ StepOk
        /\ vm.sp = last.sp - 1
        /\ TopOfStack = IF LastIndex.Value < 0 \/ LastIndex.Value >= Len(LastLeft.Elements)
                        THEN Null
                        ELSE LastLeft.Elements[LastIndex.Value + 1]

C6_Witness ==
    /\ IndexedArray /\ StepOk
    /\ LastIndex.Value = Len(LastLeft.Elements)
    /\ Len(LastLeft.Elements) > 0
    /\ TopOfStack = Null

(* the pairs the Hash instruction executed last found on the stack: pair j *)
(* is last.args[2j - 1], last.args[2j]                                     *)
LastPairs == 1..(Len(last.args) \div 2)
LastKey(j) == last.args[2 * j - 1]
LastValue(j) == last.args[2 * j]
(* the last pair, in stack order, that carries the hash key k *)
LastPairWith(k) == CHOOSE j \in LastPairs :
    /\ HashKey(LastKey(j)) = k
    /\ \A j2 \in LastPairs : HashKey(LastKey(j2)) = k => j2 <= j
BuiltHash ==
    /\ Executed(OpHash) /\ StepOk
    /\ last.operands = <<Len(last.args)>>
IndexedHash ==
    /\ Executed(OpIndex) /\ Len(last.args) = 2
    /\ LastLeft.type = HASH_OBJ /\ Hashable(LastIndex)

(* C7: the hash the Hash instruction builds maps each HashKey to the value *)
(* of the last pair, in stack order, carrying that key; Index with a       *)
(* hashable key pushes the value stored for it, and Null when no pair has  *)
(* that key.                                                               *)
C7_HashLastWins ==
    /\ BuiltHash =>
          /\ TopOfStack.type = HASH_OBJ
          /\ DOMAIN TopOfStack.Pairs = {HashKey(LastKey(j)) : j \in LastPairs}
          /\ \A k \in DOMAIN TopOfStack.Pairs :
                TopOfStack.Pairs[k].Value = LastValue(LastPairWith(k))
    /\ IndexedHash =>
          /\ StepOk
          /\ vm.sp = last.sp - 1
          /\ TopOfStack = IF HashKey(LastIndex) \in DOMAIN LastLeft.Pairs
                          THEN LastLeft.Pairs[HashKey(LastIndex)].Value
                          ELSE Null

C7_Witness ==
    /\ BuiltHash
    /\ \E j \in LastPairs : \E j2 \in LastPairs :
          /\ j < j2
          /\ HashKey(LastKey(j)) = HashKey(LastKey(j2))
          /\ LastValue(j) # LastValue(j2)
          /\ TopOfStack.Pairs[HashKey(LastKey(j))].Value = LastValue(j2)

(* C8: Div with two integer operands and a divisor of 0 makes Run return   *)
(* an error; it does not crash the VM.                                     *)
C8_DivByZeroIsError ==
    ( /\ Executed(OpDiv) /\ Len(last.args) = 2
      /\ last.args[1].type = INTEGER_OBJ /\ last.args[2].type = INTEGER_OBJ
      /\ last.args[2].Value = 0 ) => (pc = "failed" /\ status.kind = "error")

(* C9: compiling the same line twice yields the same instructions and the  *)
(* same constants.                                                         *)
C9_Deterministic == pc \in {"compiled", "failed", "run", "ran"} => comp2 = Bytecode(comp)

(* the 0-based offset of operand i (1-based) among the operand bytes *)
OperandOffset(widths, i) == SumSeq(Prefix(widths, i - 1))

(* C10: Make returns 1 + the sum of the widths bytes, the opcode first and *)
(* each 2-byte operand high byte first, and ReadOperands on the bytes      *)
(* after the opcode returns the operands and the sum of the widths.        *)
C10_RoundTrip ==
    LET widths == OperandWidths(codec.op)
        xs == codec.operands
        ins == codec.ins
    IN /\ pc \in {"made", "read"} =>
             /\ Len(ins) = 1 + SumSeq(widths)
             /\ ins[1] = codec.op
             /\ \A i \in 1..Len(widths) :
                   IF widths[i] = 2
                   THEN /\ ins[2 + OperandOffset(widths, i)] = xs[i] \div 256
                        /\ ins[3 + OperandOffset(widths, i)] = xs[i] % 256
                   ELSE ins[2 + OperandOffset(widths, i)] = xs[i]
       /\ pc = "read" =>
             /\ codec.read.operands = xs
             /\ codec.read.read = SumSeq(widths)

C10_Witness ==
    /\ pc = "read"
    /\ codec.op = OpClosure
    /\ codec.operands = <<65534, 255>>
    /\ codec.ins = <<OpClosure, 255, 254, 255>>
    /\ codec.read = [operands |-> <<65534, 255>>, read |-> 3]

(* what makes the content of a hashable object: its Value *)
Content(o) ==
    CASE o.type = INTEGER_OBJ -> o.Value
      [] o.type = BOOLEAN_OBJ -> o.Bool
      [] o.type = STRING_OBJ -> o.Str

(* C11: two hashable values of the same type and equal content have equal  *)
(* HashKeys; two integers with different values, two booleans with         *)
(* different values, and two values of different types have different      *)
(* HashKeys.                                                               *)
C11_HashKeyByContent ==
    pc = "hashed" =>
       /\ (hk.a.type = hk.b.type /\ Content(hk.a) = Content(hk.b))
             => hk.ka = hk.kb
       /\ (hk.a.type = hk.b.type /\ hk.a.type \in {INTEGER_OBJ, BOOLEAN_OBJ}
              /\ Content(hk.a) # Content(hk.b))
             => hk.ka # hk.kb
       /\ hk.a.type # hk.b.type => hk.ka # hk.kb

(* Integer 1 and Boolean true were hashed, and so were two distinct String *)
(* objects of equal content                                                *)
C11_Witness ==
    /\ pc = "hashed"
    /\ \/ hk.a = Integer(1) /\ hk.b = True
       \/ /\ hk.a.type = STRING_OBJ /\ hk.b.type = STRING_OBJ
          /\ hk.a.Str = hk.b.Str /\ hk.a.Str # <<>> /\ hk.a.addr # hk.b.addr

(* the symbol the shared top-level table holds for name, and the globals   *)
(* slot it names                                                           *)
GlobalStore == comp.tables[1].store
GlobalNames == {n \in DOMAIN GlobalStore : GlobalStore[n].Scope = GlobalScope}
GlobalSlot(name) == SlotAt(vm.globals, GlobalStore[name].Index)
BoundGlobal(name) == name \in GlobalNames /\ GlobalSlot(name) # Nil

(* C12: a global bound by an executed let keeps its index and its stored   *)
(* value through every step of the later lines, except the step that       *)
(* executes the SetGlobal of a later let of the same name.                 *)
C12_GlobalsPersist ==
    [][\A name \in GlobalNames :
          BoundGlobal(name) =>
             \/ /\ GlobalStore'[name] = GlobalStore[name]
                /\ GlobalSlot(name)' = GlobalSlot(name)
             \/ /\ last'.op = OpSetGlobal /\ last' # last
                /\ last'.operands = <<GlobalStore'[name].Index>>]_vars

(* a was bound on the first line, b on the second, and the third line read *)
(* both from the slots they were given                                     *)
C12_Witness ==
    /\ program.line = 3 /\ pc = "ran"
    /\ BoundGlobal(nmA) /\ BoundGlobal(nmB)
    /\ GlobalStore[nmA].Index = 0 /\ GlobalStore[nmB].Index = 1
    /\ GlobalSlot(nmA) = Integer(1) /\ GlobalSlot(nmB) = Integer(2)
    /\ SlotAt(vm.stack, vm.sp) = Integer(3)

(* C13: once NextToken has returned an EOF token, every later call on the  *)
(* same lexer returns EOF too.                                             *)
C13_EOFRepeats ==
    \A i \in 1..Len(lex.toks) : \A j \in i..Len(lex.toks) :
        lex.toks[i].Type = "EOF" => lex.toks[j].Type = "EOF"

(* the input was read to its end and NextToken was called twice more *)
C13_Witness ==
    /\ Len(lex.l.input) > 0
    /\ Len(lex.toks) >= 3
    /\ lex.toks[Len(lex.toks)].Type = "EOF" /\ lex.toks[Len(lex.toks) - 1].Type = "EOF"
    /\ lex.toks[1].Type # "EOF"

TokenTypes ==
    {"ILLEGAL", "EOF", "IDENT", "INT", "STRING", "ASSIGN", "PLUS", "MINUS", "BANG", "ASTERISK",
     "SLASH", "LT", "GT", "EQ", "NOT_EQ", "COMMA", "SEMICOLON", "COLON", "LPAREN", "RPAREN",
     "LBRACE", "RBRACE", "LBRACKET", "RBRACKET", "FUNCTION", "LET", "TRUE", "FALSE", "IF",
     "ELSE", "RETURN"}

(* q is p with exactly one diagnostic appended and no token consumed *)
OneMoreError(p, q) ==
    /\ Len(q.errors) = Len(p.errors) + 1
    /\ SubSeq(q.errors, 1, Len(p.errors)) = p.errors
    /\ q.l = p.l /\ q.curToken = p.curToken /\ q.peekToken = p.peekToken

(* expectPeek on the parser p: met, it advances and reports nothing; failed, *)
(* it appends one diagnostic and consumes nothing                           *)
ExpectPeekContract(p) ==
    \A t \in TokenTypes :
        LET e == expectPeek(p, t)
        IN IF p.peekToken.Type = t
           THEN e.ok /\ e.p.errors = p.errors /\ e.p.curToken = p.peekToken
           ELSE ~e.ok /\ OneMoreError(p, e.p)

(* parseExpression on a token without prefix parse function returns nil, *)
(* appends one diagnostic and consumes nothing                           *)
NoPrefixContract(p) ==
    p.curToken.Type \notin PrefixTokens =>
        LET r == parseExpression(p, LOWEST)
        IN r.node = NilNode /\ OneMoreError(p, r.p)

(* a let whose name is missing is given up (a nil *LetStatement), with one *)
(* diagnostic, and the next statement starts at the token that was not     *)
(* expected                                                                *)
LetAbandoned(p) ==
    (p.curToken.Type = "LET" /\ p.peekToken.Type # "IDENT") =>
        LET r == ParseProgramStep(p, <<>>)
        IN /\ r.stmts = <<NilPointer("LetStatement")>>
           /\ Len(r.p.errors) = Len(p.errors) + 1
           /\ r.p.curToken = p.peekToken

(* C14: ParseProgram never throws.  At every statement boundary of every    *)
(* input: a failed expectPeek and a missing prefix parse function append    *)
(* exactly one diagnostic and consume no token, the construct is given up,  *)
(* and parsing goes on with the following tokens; ParseProgram returns only *)
(* at an EOF token, keeping every diagnostic.                               *)
C14_ParseErrorsRecover ==
    /\ pc = "parse" =>
          /\ ExpectPeekContract(prs.p)
          /\ NoPrefixContract(prs.p)
          /\ LetAbandoned(prs.p)
          /\ ~curTokenIs(prs.p, "EOF") =>
                LET r == ParseProgramStep(prs.p, prs.stmts)
                IN /\ SubSeq(r.p.errors, 1, Len(prs.p.errors)) = prs.p.errors
                   /\ r.p.l.readPosition > prs.p.l.readPosition
    /\ pc = "parsed" => curTokenIs(prs.p, "EOF")

(* `let 5 = 3;` was parsed to its end: two diagnostics, the let given up *)
(* and the statements 5 and 3 parsed after it                            *)
C14_Witness ==
    /\ pc = "parsed"
    /\ prs.p.l.input = <<108, 101, 116, 32, 53, 32, 61, 32, 51, 59>>
    /\ prs.p.errors = << <<"expected next token to be", "IDENT", "got", "INT">>,
                         <<"no prefix parse function for", "ASSIGN">> >>
    /\ Len(prs.stmts) = 4 /\ prs.stmts[1] = NilPointer("LetStatement")
    /\ prs.stmts[4] = ExpressionStatement(IntegerLiteral(3))

(* the tree of a op1 b op2 c by the precedence table *)
Grouped(a, op1, b, op2, c) ==
    LET prec == [op \in BinaryOperators |->
                    CASE op \in {"==", "!="} -> EQUALS
                      [] op \in {"<", ">"} -> LESSGREATER
                      [] op \in {"+", "-"} -> SUM
                      [] op \in {"*", "/"} -> PRODUCT]
    IN IF prec[op1] >= prec[op2]
       THEN InfixExpression(InfixExpression(a, op1, b), op2, c)
       ELSE InfixExpression(a, op1, InfixExpression(b, op2, c))

(* C15: 1 op1 2 op2 3 parses with the operator of higher precedence bound *)
(* tighter and operators of equal precedence grouped to the left; a       *)
(* prefix operator binds tighter than any binary operator.                *)
C15_Precedence ==
    pc = "parsed" =>
       /\ \A op1 \in BinaryOperators, op2 \in BinaryOperators :
             prs.p.l.input = OperatorText2(op1, op2) =>
                /\ prs.p.errors = <<>>
                /\ prs.stmts = <<ExpressionStatement(
                       Grouped(IntegerLiteral(1), op1, IntegerLiteral(2), op2, IntegerLiteral(3)))>>
       /\ \A pre \in PrefixOperators, op \in BinaryOperators :
             prs.p.l.input = PrefixText(pre, op) =>
                /\ prs.p.errors = <<>>
                /\ prs.stmts = <<ExpressionStatement(
                       InfixExpression(PrefixExpression(pre, IntegerLiteral(1)), op,
                                       IntegerLiteral(2)))>>

(* 1 + 2 * 3 was parsed as 1 + (2 * 3), or 1 - 2 - 3 as (1 - 2) - 3 *)
C15_Witness ==
    /\ pc = "parsed"
    /\ \/ /\ prs.p.l.input = OperatorText2("+", "*")
          /\ prs.stmts[1].Expression.Right.type = "InfixExpression"
       \/ /\ prs.p.l.input = OperatorText2("-", "-")
          /\ prs.stmts[1].Expression.Left.type = "InfixExpression"

(* Run is about to execute Call numArgs on a compiled function that takes *)
(* another number of parameters                                           *)
CallsWithWrongCount ==
    /\ Fetches({OpCall}) /\ Has1(FetchIns, FetchIp)
    /\ LET numArgs == Uint8At(FetchIns, FetchIp)
       IN /\ InStack(vm.sp - 1 - numArgs)
          /\ SlotAt(vm.stack, vm.sp - 1 - numArgs).type = COMPILED_FUNCTION_OBJ
          /\ numArgs # vm.constants[SlotAt(vm.stack, vm.sp - 1 - numArgs).ptr + 1].NumParameters

(* C16: Call on a compiled function with numArgs # NumParameters makes Run *)
(* return the error 'wrong number of arguments'; the step pushes no frame  *)
(* and leaves sp and the stack as they were.                               *)
C16_WrongArgCount ==
    [][CallsWithWrongCount =>
          /\ pc' = "failed"
          /\ status' = [kind |-> "error", msg |-> "wrong number of arguments"]
          /\ vm'.framesIndex = vm.framesIndex
          /\ vm'.sp = vm.sp
          /\ vm'.stack = vm.stack]_vars

(* f takes one parameter and was called with two arguments: Run returned *)
(* the error                                                             *)
C16_Witness ==
    /\ pc = "failed" /\ last.op = OpCall /\ last.operands = <<2>>
    /\ last.args[1].type = COMPILED_FUNCTION_OBJ
    /\ vm.constants[last.args[1].ptr + 1].NumParameters = 1
    /\ status.msg = "wrong number of arguments"
    /\ vm.sp = last.sp /\ vm.framesIndex = 1

SampleNames == {nmA, nmB, nmX, nmF, nmLen, nmFirst}

(* the compiler the driver would make for the next line *)
NextCompiler == NewWithState(comp.tables[1], vm.constants, <<>>)

(* compiling the identifier name, at the top level and as the body of a    *)
(* function of one parameter a, when no table on the way resolves it: the  *)
(* error names it and the scope being compiled holds no instruction        *)
UndefinedAborts(name) ==
    LET top == Compile(NextCompiler, Identifier(name))
        inFn == Compile(NextCompiler,
                        FunctionLiteral(<<>>, <<nmA>>, BlockStatement(<<Expr(Id(name))>>)))
        aborted(c) == /\ c.err = "undefined variable" /\ c.errName = name
                      /\ currentInstructions(c) = <<>>
    IN ~Resolve(NextCompiler.tables, 1, name).ok =>
          /\ aborted(top)
          /\ name # nmA => aborted(inFn)

(* C17: an identifier that neither the current symbol table nor an         *)
(* enclosing one defines (built-ins included) aborts the compilation with  *)
(* 'undefined variable: <name>' and no load instruction is emitted for it; *)
(* a compilation of a line that failed this way names an identifier that   *)
(* does not resolve.                                                       *)
C17_UndefinedVariable ==
    /\ pc = "compile" => \A name \in SampleNames : UndefinedAborts(name)
    /\ (pc = "failed" /\ status.kind = "compile error") =>
          /\ comp.err = "undefined variable"
          /\ ~Resolve(comp.tables, curTable(comp), comp.errName).ok

(* the line `x` failed to compile: x is undefined and nothing was emitted *)
C17_Witness ==
    /\ pc = "failed" /\ status = [kind |-> "compile error", msg |-> "undefined variable"]
    /\ comp.errName = nmX /\ TheLine = Line(<<Expr(Id(nmX))>>)
    /\ currentInstructions(comp) = <<>>


(***************************************************************************)
(* C18: after every input line the driver prints a result or a diagnostic  *)
(* and prompts again; it stops only when the input ends.  As an invariant: *)
(* the driver is never stopped by a panic, and whenever it is back at the  *)
(* prompt it has written one entry for each line read so far.              *)
(***************************************************************************)
C18_AlwaysPromptsAgain ==
    /\ pc # "crashed"
    /\ pc = "next" => Len(out) = program.line


(***************************************************************************)
(* C19: at every instruction boundary while Run executes, sp is at least   *)
(* the current frame's basePointer plus the NumLocals of its function: the *)
(* working area of a frame never sinks into its reserved locals.           *)
(***************************************************************************)
NumLocalsOf(v, fn) == IF fn = MainFn THEN 0 ELSE v.constants[fn + 1].NumLocals

WorkingAreaAboveLocals(v) ==
    v.sp >= currentFrame(v).basePointer + NumLocalsOf(v, currentFrame(v).fn)

C19_SpAboveLocals == pc = "run" => WorkingAreaAboveLocals(vm)


(***************************************************************************)
(* C20: when a compiled function entered by Call returns through           *)
(* ReturnValue or Return, the frame index is back to its value before the  *)
(* call, sp is the index of the slot that held the callee plus one, and    *)
(* that slot holds the returned value (Null for Return).  In three parts,  *)
(* over the steps of Run: a Call of a compiled function adds one frame     *)
(* whose basePointer is the slot above the callee; the frames below the    *)
(* top keep their basePointer while Run executes; a return from a frame    *)
(* entered by Call removes that frame, leaves sp at its basePointer and    *)
(* the value in the slot below.                                            *)
(***************************************************************************)
CalleeSlot == vm.sp - 1 - Uint8At(FetchIns, FetchIp)

CallEntersFrame ==
    (/\ Fetches({OpCall})
     /\ SlotAt(vm.stack, CalleeSlot).type = COMPILED_FUNCTION_OBJ
     /\ pc' = "run")
    => /\ vm'.framesIndex = vm.framesIndex + 1
       /\ currentFrame(vm').basePointer = CalleeSlot + 1
       /\ currentFrame(vm').fn = SlotAt(vm.stack, CalleeSlot).ptr

FramesBelowKept ==
    (pc = "run" /\ pc' = "run")
    => \A i \in 0..(vm.framesIndex - 1) :
           i < vm'.framesIndex
           => /\ vm'.frames[i].basePointer = vm.frames[i].basePointer
              /\ vm'.frames[i].fn = vm.frames[i].fn

ReturnedValue == IF FetchOp = OpReturnValue THEN SlotAt(vm.stack, vm.sp - 1) ELSE Null

ReturnLeavesFrame ==
    (/\ Fetches({OpReturnValue, OpReturn})
     /\ vm.framesIndex > 1
     /\ pc' = "run")
    => /\ vm'.framesIndex = vm.framesIndex - 1
       /\ vm'.sp = currentFrame(vm).basePointer
       /\ SlotAt(vm'.stack, vm'.sp - 1) = ReturnedValue

C20_ReturnRestores == [][CallEntersFrame /\ FramesBelowKept /\ ReturnLeavesFrame]_vars

(* a call made inside a called function returned a value over its argument *)
C20_Witness ==
    /\ pc = "run"
    /\ last.op = OpReturnValue
    /\ vm.framesIndex >= 2
    /\ vm.sp <= last.sp - 2
    /\ SlotAt(vm.stack, vm.sp - 1) = last.args[1]


(***************************************************************************)
(* C21: after Call on a built-in with N arguments sp is the sp before the  *)
(* call minus N, the slot that held the built-in holds its result (Null    *)
(* when it returned nothing), the slots below are untouched, no frame was  *)
(* pushed, and the step never ends in an error or a panic: the push of the *)
(* result cannot overflow.                                                 *)
(***************************************************************************)
CallsBuiltin ==
    /\ Fetches({OpCall}) /\ Has1(FetchIns, FetchIp)
    /\ InStack(CalleeSlot)
    /\ SlotAt(vm.stack, CalleeSlot).type = BUILTIN_OBJ

BuiltinResult ==
    BuiltinFn(SlotAt(vm.stack, CalleeSlot).index, StackSlice(vm, CalleeSlot + 1, vm.sp),
              NewAddr(vm))

C21_BuiltinCall ==
    [][CallsBuiltin =>
          /\ pc' = "run"
          /\ vm'.sp = vm.sp - Uint8At(FetchIns, FetchIp)
          /\ vm'.sp <= StackSize
          /\ SlotAt(vm'.stack, CalleeSlot) =
                 (IF BuiltinResult.type = "nil" THEN Null ELSE BuiltinResult)
          /\ \A i \in 0..(CalleeSlot - 1) : SlotAt(vm'.stack, i) = SlotAt(vm.stack, i)
          /\ vm'.framesIndex = vm.framesIndex]_vars

(* a built-in called with one argument returned nothing: Null took its slot *)
C21_Witness ==
    /\ pc = "run" /\ last.op = OpCall /\ last.operands = <<1>>
    /\ last.args[1].type = BUILTIN_OBJ
    /\ vm.sp = last.sp - 1
    /\ SlotAt(vm.stack, vm.sp - 1) = Null


(***************************************************************************)
(* C22: the code compiled for an if-expression leaves exactly one more     *)
(* value on the stack than there was before its condition, whichever       *)
(* branch runs and whatever its blocks contain.  Checked on the lines that *)
(* are one expression statement holding an if-expression: when Run arrives *)
(* at the Pop that ends the statement, the stack holds the one value.      *)
(***************************************************************************)
IsIfLine ==
    /\ TheLine.type = "Program" /\ Len(TheLine.Statements) = 1
    /\ TheLine.Statements[1].type = "ExpressionStatement"
    /\ TheLine.Statements[1].Expression.type = "IfExpression"

AtLastPop ==
    /\ pc = "run" /\ vm.framesIndex = 1 /\ RunCondition(vm)
    /\ FetchIp = Len(vm.instructions) - 1 /\ FetchOp = OpPop

C22_IfLeavesOneValue == (IsIfLine /\ AtLastPop) => vm.sp = 1


(***************************************************************************)
(* C23: in compiled code the operand of every JumpNotTruthy is the offset  *)
(* where the alternative (or the Null) starts, that is the offset just     *)
(* after the Jump that ends the consequence, and the operand of that Jump  *)
(* is the offset just after the alternative; no placeholder is left.  On   *)
(* every instruction stream the compiler produced: each JumpNotTruthy      *)
(* targets the instruction after a later Jump, each Jump belongs to one    *)
(* JumpNotTruthy and targets an instruction boundary not before the        *)
(* alternative, and an if-expression inside a branch stays inside it.  On  *)
(* a line that is one if-expression the outer Jump targets the Pop that    *)
(* ends the statement, and without an else the alternative is the Null.    *)
(***************************************************************************)
(* the offset of the instruction after the one at offset i *)
NextInstruction(ins) ==
    [i \in 0..Len(ins) |->
        IF i >= Len(ins) THEN Len(ins)
        ELSE LET n == i + 1 + SumSeq(OperandWidths(ins[i + 1]))
             IN IF n > Len(ins) THEN Len(ins) ELSE n]

(* the offsets reached from those of R by following next, by doubling *)
RECURSIVE Orbit(_, _)
Orbit(next, R) ==
    IF {next[x] : x \in R} \subseteq R THEN R
    ELSE Orbit([i \in DOMAIN next |-> next[next[i]]], R \cup {next[x] : x \in R})

(* the offsets at which the instructions of a stream start *)
Boundaries(ins) == Orbit(NextInstruction(ins), {0}) \ {Len(ins)}

OpAt(ins, i) == ins[i + 1]

Placeholder == 9999

(* the offsets of the JumpNotTruthy instructions of a stream *)
Conditionals(ins) == {i \in Boundaries(ins) : OpAt(ins, i) = OpJumpNotTruthy}

AlternativeStart(ins, i) == Uint16At(ins, i)
AlternativeEnd(ins, i) == Uint16At(ins, AlternativeStart(ins, i) - 3)

JumpsPatched(ins) ==
    LET B == Boundaries(ins)
    IN /\ \A i \in Conditionals(ins) :
              /\ AlternativeStart(ins, i) # Placeholder
              /\ AlternativeStart(ins, i) - 3 \in B
              /\ AlternativeStart(ins, i) - 3 >= i + 3
              /\ OpAt(ins, AlternativeStart(ins, i) - 3) = OpJump
              /\ AlternativeEnd(ins, i) # Placeholder
              /\ AlternativeEnd(ins, i) \in B \cup {Len(ins)}
              /\ AlternativeEnd(ins, i) >= AlternativeStart(ins, i)
       /\ \A j \in B :
              OpAt(ins, j) = OpJump => \E i \in Conditionals(ins) : AlternativeStart(ins, i) = j + 3
       /\ \A i, k \in Conditionals(ins) :
              (i < k /\ k < AlternativeEnd(ins, i))
              => IF k < AlternativeStart(ins, i)
                 THEN AlternativeEnd(ins, k) <= AlternativeStart(ins, i) - 3
                 ELSE AlternativeEnd(ins, k) <= AlternativeEnd(ins, i)

(* the instruction streams of a compiler: its current scope and its functions *)
Streams(c) ==
    {currentInstructions(c)}
        \cup {c.constants[k].Instructions :
                 k \in {n \in 1..Len(c.constants) : c.constants[n].type = COMPILED_FUNCTION_OBJ}}

Min(S) == CHOOSE m \in S : \A n \in S : m <= n

OuterIfPatched(ins) ==
    /\ Conditionals(ins) # {}
    /\ AlternativeEnd(ins, Min(Conditionals(ins))) = Len(ins) - 1
    /\ TheLine.Statements[1].Expression.Alternative.type = "nil"
       => /\ OpAt(ins, AlternativeStart(ins, Min(Conditionals(ins)))) = OpNull
          /\ AlternativeEnd(ins, Min(Conditionals(ins)))
                 = AlternativeStart(ins, Min(Conditionals(ins))) + 1

C23_JumpTargets ==
    pc = "compiled"
    => /\ \A ins \in Streams(comp) : JumpsPatched(ins)
       /\ IsIfLine => OuterIfPatched(currentInstructions(comp))

(* a line that is an if-expression with an else and with an if-expression *)
(* in its consequence was compiled                                        *)
C23_Witness ==
    /\ pc = "compiled" /\ IsIfLine
    /\ TheLine.Statements[1].Expression.Alternative.type # "nil"
    /\ Cardinality(Conditionals(currentInstructions(comp))) = 2
    /\ \E k \in Conditionals(currentInstructions(comp)) :
          /\ k > Min(Conditionals(currentInstructions(comp)))
          /\ k < AlternativeStart(currentInstructions(comp),
                                  Min(Conditionals(currentInstructions(comp))))


(***************************************************************************)
(* C24: the instruction stream of every compiled function ends with        *)
(* ReturnValue or Return, whatever the last statement of the body is (an   *)
(* expression, a let, a return, an if-expression) and for an empty body.   *)
(***************************************************************************)
Max(S) == CHOOSE m \in S : \A n \in S : m >= n

CompiledFunctions(c) ==
    {c.constants[k] : k \in {n \in 1..Len(c.constants) : c.constants[n].type = COMPILED_FUNCTION_OBJ}}

LastOpcode(ins) == OpAt(ins, Max(Boundaries(ins)))

EndsWithReturn(ins) ==
    /\ ins # <<>>
    /\ LastOpcode(ins) \in {OpReturnValue, OpReturn}
    /\ Max(Boundaries(ins)) = Len(ins) - 1

C24_FunctionsEndWithReturn ==
    pc = "compiled" => \A fn \in CompiledFunctions(comp) : EndsWithReturn(fn.Instructions)

(* the body of the function literal a line binds with let, when it does *)
BoundFunctionBody ==
    IF /\ TheLine.type = "Program" /\ Len(TheLine.Statements) >= 1
       /\ TheLine.Statements[1].type = "LetStatement"
       /\ TheLine.Statements[1].Value.type = "FunctionLiteral"
    THEN TheLine.Statements[1].Value.Body.Statements
    ELSE <<[type |-> "none"]>>

LastOf(s) == s[Len(s)]

(* a function whose body ends in a let statement was compiled: its stream *)
(* is the SetLocal followed by the Return the compiler added              *)
C24_Witness ==
    /\ pc = "compiled"
    /\ BoundFunctionBody # <<>>
    /\ LastOf(BoundFunctionBody).type = "LetStatement"
    /\ \E fn \in CompiledFunctions(comp) :
          /\ LastOpcode(fn.Instructions) = OpReturn
          /\ Len(fn.Instructions) >= 3
          /\ OpAt(fn.Instructions, Len(fn.Instructions) - 3) = OpSetLocal

(* the other endings: empty body, expression, return statement, if-expression *)
C24_Endings(kind) ==
    /\ pc = "compiled"
    /\ IF kind = "empty" THEN BoundFunctionBody = <<>>
       ELSE /\ BoundFunctionBody # <<>>
            /\ IF kind = "if"
               THEN /\ LastOf(BoundFunctionBody).type = "ExpressionStatement"
                    /\ LastOf(BoundFunctionBody).Expression.type = "IfExpression"
               ELSE LastOf(BoundFunctionBody).type = kind


Holders(tables, lvl, name) == {n \in 1..lvl : name \in DOMAIN tables[n].store}

(* the symbol of the nearest definition of name seen from table lvl *)
NearestLevel(tables, lvl, name) == Max(Holders(tables, lvl, name))
Nearest(tables, lvl, name) == tables[NearestLevel(tables, lvl, name)].store[name]

ResolveCalled == pc = "symbols" /\ symtab.call.op = "Resolve"

(***************************************************************************)
(* C26: Resolve of a name whose nearest definition is a Global or Builtin  *)
(* symbol returns that symbol, with its scope and index, from any depth,   *)
(* and changes no table: nothing is added to any FreeSymbols or store.     *)
(***************************************************************************)
C26_ResolveGlobalOrBuiltin ==
    (/\ ResolveCalled
     /\ Holders(symtab.call.before, symtab.call.lvl, symtab.call.name) # {}
     /\ Nearest(symtab.call.before, symtab.call.lvl, symtab.call.name).Scope
            \in {GlobalScope, BuiltinScope})
    => /\ symtab.call.ok
       /\ symtab.call.symbol = Nearest(symtab.call.before, symtab.call.lvl, symtab.call.name)
       /\ symtab.tables = symtab.call.before

(* a global was resolved from a table two levels further in *)
C26_Witness ==
    /\ ResolveCalled
    /\ symtab.call.lvl >= 3
    /\ Holders(symtab.call.before, symtab.call.lvl, symtab.call.name) = {1}
    /\ symtab.call.symbol.Scope = GlobalScope
    /\ symtab.call.ok

(***************************************************************************)
(* C27: Resolve of a name found only in an enclosing table that is not the *)
(* global one, as Local, Free or Function, appends the symbol of the       *)
(* enclosing table to FreeSymbols of the resolving table and returns a     *)
(* Free symbol whose index is its position in that list; every table       *)
(* between the defining and the resolving one records the name as free in  *)
(* the same way, and no other table changes.                               *)
(***************************************************************************)
RecordedFree(lvl, name) ==
    LET now == symtab.tables[lvl]
        was == symtab.call.before[lvl]
    IN /\ Len(now.FreeSymbols) = Len(was.FreeSymbols) + 1
       /\ SubSeq(now.FreeSymbols, 1, Len(was.FreeSymbols)) = was.FreeSymbols
       /\ now.FreeSymbols[Len(now.FreeSymbols)] = symtab.tables[lvl - 1].store[name]
       /\ now.store[name] = Symbol(name, FreeScope, Len(now.FreeSymbols) - 1)
       /\ now.numDefinitions = was.numDefinitions
       /\ \A n \in DOMAIN was.store : n # name => now.store[n] = was.store[n]

FoundInEnclosing ==
    /\ ResolveCalled
    /\ Holders(symtab.call.before, symtab.call.lvl, symtab.call.name) # {}
    /\ NearestLevel(symtab.call.before, symtab.call.lvl, symtab.call.name) < symtab.call.lvl
    /\ NearestLevel(symtab.call.before, symtab.call.lvl, symtab.call.name) > 1
    /\ Nearest(symtab.call.before, symtab.call.lvl, symtab.call.name).Scope
           \in {LocalScope, FreeScope, FunctionScope}

C27_ResolveFree ==
    FoundInEnclosing
    => LET from == NearestLevel(symtab.call.before, symtab.call.lvl, symtab.call.name)
       IN /\ symtab.call.ok
          /\ symtab.call.symbol = symtab.tables[symtab.call.lvl].store[symtab.call.name]
          /\ \A lvl \in (from + 1)..symtab.call.lvl : RecordedFree(lvl, symtab.call.name)
          /\ \A lvl \in 1..Len(symtab.tables) :
                (lvl <= from \/ lvl > symtab.call.lvl)
                => symtab.tables[lvl] = symtab.call.before[lvl]

(* a local of the second table was resolved from the fourth, which already *)
(* had a free symbol: the third table records it too                       *)
C27_Witness ==
    /\ FoundInEnclosing
    /\ symtab.call.lvl = 4
    /\ NearestLevel(symtab.call.before, symtab.call.lvl, symtab.call.name) = 2
    /\ symtab.call.symbol = Symbol(symtab.call.name, FreeScope, 1)


(***************************************************************************)
(* C28: for every function literal compiled, the enclosing scope holds,    *)
(* immediately before the Closure instruction, exactly one load per free   *)
(* symbol of the function, in the order of FreeSymbols, and the second     *)
(* operand of Closure is the number of free symbols.                       *)
(***************************************************************************)
LoadOf(s) ==
    CASE s.Scope = GlobalScope -> Make(OpGetGlobal, <<s.Index>>)
      [] s.Scope = LocalScope -> Make(OpGetLocal, <<s.Index>>)
      [] s.Scope = BuiltinScope -> Make(OpGetBuiltin, <<s.Index>>)
      [] s.Scope = FreeScope -> Make(OpGetFree, <<s.Index>>)
      [] s.Scope = FunctionScope -> Make(OpCurrentClosure, <<>>)

RECURSIVE LoadsOf(_)
LoadsOf(free) == IF free = <<>> THEN <<>> ELSE LoadOf(Head(free)) \o LoadsOf(Tail(free))

(* the stream ins holds at pos the Closure of the function literal r, with *)
(* the loads of its free symbols before it                                 *)
ClosureWithLoads(ins, r) ==
    /\ r.pos \in Boundaries(ins)
    /\ r.pos + 3 < Len(ins)
    /\ SubSeq(ins, r.pos + 1, r.pos + 4) = Make(OpClosure, <<r.fnIndex, Len(r.free)>>)
    /\ ins[r.pos + 4] = Len(r.free)
    /\ r.pos >= Len(LoadsOf(r.free))
    /\ SubSeq(ins, r.pos - Len(LoadsOf(r.free)) + 1, r.pos) = LoadsOf(r.free)
    /\ \A i \in 1..Len(r.free) :
          (r.pos - Len(LoadsOf(SubSeq(r.free, i, Len(r.free))))) \in Boundaries(ins)

C28_ClosureLoads ==
    pc = "compiled"
    => \A n \in 1..Len(comp.closures) :
          /\ comp.constants[comp.closures[n].fnIndex + 1].type = COMPILED_FUNCTION_OBJ
          /\ \E ins \in Streams(comp) : ClosureWithLoads(ins, comp.closures[n])
          /\ \A ins \in Streams(comp) :
                \A j \in Boundaries(ins) :
                   (OpAt(ins, j) = OpClosure /\ Uint16At(ins, j) = comp.closures[n].fnIndex)
                   => (j = comp.closures[n].pos /\ ClosureWithLoads(ins, comp.closures[n]))

(* a function literal with two free symbols, one of them free in the       *)
(* enclosing function too, was compiled                                     *)
C28_Witness ==
    /\ pc = "compiled"
    /\ \E n \in 1..Len(comp.closures) :
          /\ Len(comp.closures[n].free) >= 2
          /\ \E i, j \in 1..Len(comp.closures[n].free) :
                /\ comp.closures[n].free[i].Scope = FreeScope
                /\ comp.closures[n].free[j].Scope = LocalScope


(***************************************************************************)
(* C29: for any two active frames the ranges of local slots                *)
(* [basePointer, basePointer + NumLocals) are disjoint and the deeper      *)
(* frame has the strictly greater basePointer.  Stated for the frame on    *)
(* top against every frame below it: the frames below the top do not       *)
(* change while it is active, so every pair of active frames is such a     *)
(* pair in the state where its deeper frame was pushed.                    *)
(***************************************************************************)
LocalSlots(v, f) == {s \in 0..StackSize : s >= f.basePointer
                                          /\ s < f.basePointer + NumLocalsOf(v, f.fn)}

FramesApart(v, lower, deeper) ==
    /\ deeper.basePointer > lower.basePointer
    /\ LocalSlots(v, lower) \cap LocalSlots(v, deeper) = {}

C29_FramesDisjoint ==
    pc = "run"
    => \A i \in 0..(vm.framesIndex - 2) :
          FramesApart(vm, vm.frames[i], vm.frames[vm.framesIndex - 1])

(* the two parts of C29 apart *)
C29_BasePointersIncrease ==
    pc = "run"
    => \A i \in 0..(vm.framesIndex - 2) :
          vm.frames[vm.framesIndex - 1].basePointer > vm.frames[i].basePointer

C29_LocalSlotsDisjoint ==
    pc = "run"
    => \A i \in 0..(vm.framesIndex - 2) :
          LocalSlots(vm, vm.frames[i]) \cap LocalSlots(vm, vm.frames[vm.framesIndex - 1]) = {}


(***************************************************************************)
(* C30: the operands the compiler emits fit their encoded width: when the  *)
(* index of a global binding or constant, or a jump target, is beyond the  *)
(* values of a two-byte operand, the compiler reports an error; otherwise  *)
(* the operand in the instruction stream is the index or target itself.    *)
(***************************************************************************)
Emitted == currentInstructions(comp)
TheStatement == program.node.Statements[1]

(* the operands in the stream are the index of the binding, the index of   *)
(* the constant, the offsets after the Jump and after the Null             *)
OperandsAsMeant ==
    CASE TheStatement.type = "LetStatement" ->
            Uint16At(Emitted, Len(Emitted) - 3) = comp.tables[1].store[nmA].Index
      [] TheStatement.type = "ExpressionStatement"
            /\ TheStatement.Expression.type = "IntegerLiteral" ->
            Uint16At(Emitted, Len(Emitted) - 4) = Len(comp.constants) - 1
      [] OTHER ->
            /\ Uint16At(Emitted, Len(Emitted) - 9) = Len(Emitted) - 2
            /\ Uint16At(Emitted, Len(Emitted) - 5) = Len(Emitted) - 1

C30_OperandsFit == pc = "emitted" => (comp.err # "" \/ OperandsAsMeant)

(* with every index and target within two bytes the operands are as meant *)
C30_FitBelowLimit ==
    (pc = "emitted" /\ Len(Emitted) <= OperandLimit /\ Len(comp.constants) <= OperandLimit
        /\ comp.tables[1].numDefinitions <= OperandLimit)
    => (comp.err = "" /\ OperandsAsMeant)


(***************************************************************************)
(* C31: every opcode the compiler emits is executed by a case of Run that  *)
(* advances ip past exactly the operand bytes of the opcode: what Run      *)
(* fetches is always the first byte of an instruction of the stream, and   *)
(* the switch has a case for it.                                           *)
(***************************************************************************)
FetchesInstruction == FetchIp \in Boundaries(FetchIns)

C31_EveryOpcodeHasCase ==
    (pc = "run" /\ RunCondition(vm)) => (FetchOp \in CaseOps /\ FetchesInstruction)

(* the two parts of C31 apart *)
C31_FetchedHasCase == (pc = "run" /\ RunCondition(vm)) => FetchOp \in CaseOps
C31_FetchedIsOpcode == (pc = "run" /\ RunCondition(vm)) => FetchesInstruction


(***************************************************************************)
(* C32: while Run executes a compiled program, top-level return statements *)
(* included, the frame index stays at least 1 and sp at least 0: the main  *)
(* frame is never popped, and pop is never executed on an empty stack.     *)
(***************************************************************************)
(* the opcodes whose case calls vm.pop, and how often *)
Pops(op) ==
    CASE op \in {OpAdd, OpSub, OpMul, OpDiv, OpGreaterThan, OpEqual, OpNotEqual, OpIndex} -> 2
      [] op \in {OpMinus, OpBang, OpPop, OpJumpNotTruthy, OpSetGlobal, OpSetLocal,
                 OpReturnValue} -> 1
      [] OTHER -> 0

Running == pc \in {"run", "ran", "failed", "crashed"}

C32_MainFrameKept ==
    Running => /\ vm.framesIndex >= 1
               /\ vm.sp >= 0
               /\ last.op # NoLast.op => Pops(last.op) <= last.sp

(* the parts of C32 apart *)
C32_FrameIndexPositive == Running => vm.framesIndex >= 1
C32_NoPopOnEmptyStack == (Running /\ last.op # NoLast.op) => Pops(last.op) <= last.sp

(* a return statement at the top level was executed *)
TopLevelReturn == Running /\ last.op = OpReturnValue /\ last.fn = MainFn


(***************************************************************************)
(* C33: GetGlobal and GetLocal never push a slot that has not been         *)
(* written, also on lines that follow a line that failed to compile: each  *)
(* executed GetGlobal k finds slot k of the globals store written by a     *)
(* SetGlobal k, and each executed GetLocal k reads an argument or a slot   *)
(* that holds an object.  The globals store of the VM has exactly the      *)
(* slots SetGlobal wrote.                                                  *)
(***************************************************************************)
LastOperand == last.operands[1]

GetGlobalReadsWritten ==
    (Executed(OpGetGlobal) /\ last.operands # <<>>) => LastOperand \in DOMAIN vm.globals

GetLocalReadsWritten ==
    (Executed(OpGetLocal) /\ last.operands # <<>> /\ StepOk /\ last.fn # MainFn
        /\ LastOperand >= vm.constants[last.fn + 1].NumParameters)
    => TopOfStack # Nil

C33_ReadsWrittenSlots == GetGlobalReadsWritten /\ GetLocalReadsWritten

(* the parts of C33 apart *)
C33_Globals == GetGlobalReadsWritten
C33_Locals == GetLocalReadsWritten


(***************************************************************************)
(* C34: after Compile returns successfully, the operand of every Jump and  *)
(* JumpNotTruthy of the main instructions and of every compiled function   *)
(* is the offset of the first byte of an instruction of the same stream,   *)
(* or the length of the stream: removing a trailing Pop leaves no jump     *)
(* into the middle of an instruction or past the end.                      *)
(***************************************************************************)
JumpOffsets(ins) == {i \in Boundaries(ins) : OpAt(ins, i) \in {OpJump, OpJumpNotTruthy}}

JumpsToInstructions(ins) ==
    \A i \in JumpOffsets(ins) : Uint16At(ins, i) \in Boundaries(ins) \cup {Len(ins)}

C34_JumpsToInstructions ==
    pc = "compiled" => \A ins \in Streams(comp) : JumpsToInstructions(ins)

(* a function whose body is an if-expression with both branches was        *)
(* compiled: the Pop of each branch was removed and the final Pop replaced *)
C34_Witness ==
    /\ pc = "compiled"
    /\ \E fn \in CompiledFunctions(comp) :
          /\ Cardinality(JumpOffsets(fn.Instructions)) = 2
          /\ LastOpcode(fn.Instructions) = OpReturnValue
          /\ \E i \in JumpOffsets(fn.Instructions) :
                /\ OpAt(fn.Instructions, i) = OpJump
                /\ Uint16At(fn.Instructions, i) = Len(fn.Instructions) - 1


(***************************************************************************)
(* C35: after Compile returns, with or without an error, scopeIndex is 0   *)
(* and the compiler's symbol table is the table it started with: every     *)
(* enterScope is matched by a leaveScope.  comp is the compiler of the     *)
(* line compiled last (or the new one before the first line).              *)
(***************************************************************************)
C35_ScopesLeft == comp.scopeIndex = 0 /\ Len(comp.tables) = 1 /\ Len(comp.scopes) = 1

(* the same when Compile returned no error *)
C35_ScopesLeftOnSuccess ==
    comp.err = "" => (comp.scopeIndex = 0 /\ Len(comp.tables) = 1 /\ Len(comp.scopes) = 1)


(***************************************************************************)
(* C36: from the Call that enters a compiled function until its matching   *)
(* return, no stack slot below the slot of the callee (index less than     *)
(* basePointer - 1) is modified, and the globals store changes only        *)
(* through SetGlobal.  Over the steps of Run: while called frames are      *)
(* active, a step changes no slot below the callee slot of any of them,    *)
(* and a step that changes the globals store executes SetGlobal.           *)
(***************************************************************************)
CalledFrames(v) == {v.frames[j] : j \in 1..(v.framesIndex - 1)}

SlotsBelowCalleeKept ==
    (pc = "run" /\ vm.framesIndex >= 2)
    => \A s \in (DOMAIN vm.stack) \cup (DOMAIN vm'.stack) :
          (\E f \in CalledFrames(vm) : s < f.basePointer - 1)
          => SlotAt(vm'.stack, s) = SlotAt(vm.stack, s)

GlobalsBySetGlobal ==
    (pc = "run" /\ vm'.globals # vm.globals) => (RunCondition(vm) /\ FetchOp = OpSetGlobal)

C36_CallFrameEffect == [][SlotsBelowCalleeKept /\ GlobalsBySetGlobal]_vars

(* the parts of C36 apart *)
C36_Slots == [][SlotsBelowCalleeKept]_vars
C36_Globals == [][GlobalsBySetGlobal]_vars


(***************************************************************************)
(* C37: resolving a free name a second time in the same symbol table       *)
(* returns the same Free symbol, with the same index, as the first         *)
(* resolution, and leaves FreeSymbols of that table and of all enclosing   *)
(* tables unchanged.  The first resolution left the Free symbol in the     *)
(* store of the table.                                                     *)
(***************************************************************************)
ResolvedBefore ==
    /\ ResolveCalled
    /\ symtab.call.name \in DOMAIN symtab.call.before[symtab.call.lvl].store
    /\ symtab.call.before[symtab.call.lvl].store[symtab.call.name].Scope = FreeScope

C37_ResolveFreeAgain ==
    ResolvedBefore
    => /\ symtab.call.ok
       /\ symtab.call.symbol = symtab.call.before[symtab.call.lvl].store[symtab.call.name]
       /\ \A lvl \in 1..symtab.call.lvl :
             symtab.tables[lvl].FreeSymbols = symtab.call.before[lvl].FreeSymbols
       /\ symtab.tables = symtab.call.before

(* a name free in the fourth table through the third was resolved there    *)
(* again                                                                   *)
C37_Witness ==
    /\ ResolvedBefore
    /\ symtab.call.lvl = 4
    /\ symtab.call.symbol.Scope = FreeScope
    /\ symtab.call.before[3].FreeSymbols # <<>>
    /\ symtab.call.before[4].FreeSymbols # <<>>

(***************************************************************************)
(* C38: ParseProgram terminates on every finite input: every iteration of  *)
(* the statement loop reads at least one token from the lexer, the block   *)
(* loop, the expression loop and the hash-literal loop inside it come to   *)
(* an end, and the statement loop reaches EOF and returns, also when the   *)
(* input ends inside an unfinished block, list or hash literal.            *)
(***************************************************************************)
TextBlockUnfinished == <<102, 110, 40, 41, 32, 123, 32, 49>>
TextListUnfinished == <<97, 40, 49, 44, 32, 50>>
TextHashUnfinished == <<123, 32, 97>>

(* the lexer has been read further: every NextToken calls readChar *)
TokenConsumed == prs'.p.l.readPosition > prs.p.l.readPosition

StatementLoopConsumes == (pc = "parse" /\ pc' = "parse") => TokenConsumed

(* the statement loop cannot run more often than the lexer can be read     *)
(* before only EOF is left                                                 *)
ParseProgramReturned == pc = "parsed"

C38_ParseProgramTerminates ==
    [][StatementLoopConsumes]_vars /\ <>ParseProgramReturned

(* ParseProgram has returned on a text that ends inside a block *)
C38_Witness ==
    /\ ParseProgramReturned
    /\ prs.p.l.input = TextBlockUnfinished
    /\ prs.p.errors = <<>>
    /\ Len(prs.stmts) = 1

(* and on texts that end inside an argument list and a hash literal *)
C38_ListUnfinished == ParseProgramReturned /\ prs.p.l.input = TextListUnfinished
C38_HashUnfinished == ParseProgramReturned /\ prs.p.l.input = TextHashUnfinished

(***************************************************************************)
(* C39: Instructions.String() terminates for every byte sequence: every    *)
(* iteration of its loop advances the read position by at least one byte,  *)
(* also when the byte at the read position is not a defined opcode.        *)
(***************************************************************************)
StringIterates == pc = "string" /\ pc' = "string"

ReadPositionAdvances == codec'.i >= codec.i + 1

C39_StringAdvances == [][StringIterates => ReadPositionAdvances]_vars

(* the iterations that decode an instruction do advance *)
C39_DecodedAdvances == [][StringDecodes => ReadPositionAdvances]_vars

(* the loop is in an iteration it has been in before: an error line is     *)
(* written and the read position still stands on the undefined byte        *)
StringRepeats ==
    /\ StringLoops
    /\ ~Lookup(StringOp).ok
    /\ codec.out # <<>>
    /\ codec.out[Len(codec.out)].pos = -1

====
